---------------------------- MODULE Spec2Model ----------------------------
(***************************************************************************)
(* A model of the text_to_cad repository: the shape-parameter schema       *)
(* (geometric_primitives.py, parameter_tools.py), the text encoder         *)
(* (common.py), the dataset generators, the training driver and the        *)
(* inference path.  Python lists are sequences; an optional value is a     *)
(* sequence of length 0 or 1; an exception is the name of its class.       *)
(***************************************************************************)
EXTENDS Integers, Sequences, FiniteSets, TLC

VARIABLES
    call,            \* schema: the inputs of the run (operation, shape, arguments)
    params,          \* schema: the Parameters instance constructed (optional)
    flat,            \* schema: the result of params.to_list() (optional)
    entry,           \* schema: a dataset entry {shape, cad_parameters} (optional)
    processed_entry, \* schema: the training driver's conversion of entry (optional)
    description,     \* text: the description given to preprocess_description
    processed,       \* text: its result (optional)
    reprocessed,     \* text: the result of preprocessing the result (optional)
    ipc,             \* inference: the position of the run
    artifacts,       \* inference: the artifact files that exist (optional: no driver)
    loaded_artifacts, \* inference: the artifacts the driver has loaded
    raw_output,      \* inference: the model's output for the description
    shape_prediction_params, \* inference: predict's result (optional)
    objects,         \* inference: the objects given to generate_freecad_file
    output_file,     \* inference: the output path (optional: None)
    doc,             \* inference: the FreeCAD document (optional)
    obj_count,       \* inference: generate_freecad_file's counter i
    iexc,            \* inference: the exception that ended the run, or "none"
    result,          \* inference: generate_freecad_file's return value (optional)
    tpc,             \* training: the position of the run
    args,            \* training: the command line arguments
    files,           \* training: the datasets directory and the three output files
    loaded,          \* training: what was read from the vectorizer and model files
    dataset,         \* training: the entries loaded from the datasets directory
    processed_dataset, \* training: the entries after the conversion loop
    train_df,        \* training: the rows of the training split
    test_df,         \* training: the rows of the test split
    vectorizer,      \* training: the CountVectorizer (optional)
    X_train,         \* training: the count rows of the training split
    X_test,          \* training: the count rows of the test split
    model,           \* training: the CADParameterPredictor (optional)
    epoch,           \* training: the number of completed epochs
    texc,            \* training: the exception that ended the run, or "none"
    gpc,             \* generator: the position of the run
    run,             \* generator: the script, --num-datapoints and the random outcomes
    gdataset,        \* generator: the list the loop appends to
    gfile,           \* generator: the dataset file written (optional)
    gexc,            \* generator: the exception that ended the run, or "none"
    ppc,             \* pass: the position of a call of train or evaluate
    pass,            \* pass: the function, len(X), batch_size and the batch losses
    batches,         \* pass: the index ranges of the batches processed so far
    optimizer_steps, \* pass: the number of optimizer.step() calls
    epoch_loss,      \* pass: the sum of the batch losses so far
    avg_loss,        \* pass: the value returned (optional)
    pexc,            \* pass: the exception that ended the call, or "none"
    infer_args       \* pipeline: the file arguments of the inference run (optional)

schemaVars == <<call, params, flat, entry, processed_entry>>

textVars == <<description, processed, reprocessed>>

inferVars == <<ipc, artifacts, loaded_artifacts, raw_output, shape_prediction_params, objects, output_file, doc,
               obj_count, iexc, result>>

trainVars == <<tpc, args, files, loaded, dataset, processed_dataset, train_df, test_df,
               vectorizer, X_train, X_test, model, epoch, texc>>

genVars == <<gpc, run, gdataset, gfile, gexc>>

passVars == <<ppc, pass, batches, optimizer_steps, epoch_loss, avg_loss, pexc>>

pipeVars == <<infer_args>>

vars == <<schemaVars, textVars, inferVars, trainVars, genVars, passVars, pipeVars>>

(***************************************************************************)
(* Bounds of the model.                                                    *)
(***************************************************************************)
\* Field values supplied to Parameters(...) range over 1..MaxValue.
MaxValue == 2
\* A description is built from at most MaxPieces pieces of text.
MaxPieces == 3
\* The generators' uniform draws are sampled at the end points of the interval
\* and at the multiples of SampleStep (in tenths of a unit) between them.
SampleStep == 200
\* The first element of the model's raw output ranges over -MaxFirst..MaxFirst.
MaxFirst == 13
\* The other elements of the raw output are -MaxRaw, 0 or MaxRaw.
MaxRaw == 2
\* A direct call of generate_freecad_file passes at most MaxObjects objects.
MaxObjects == 2
\* The datasets directory holds at most MaxEntries entries.
MaxEntries == 3

\* The largest --num-datapoints of a generator run.
MaxDatapoints == 2

\* train and evaluate are called with at most MaxSamples samples and a batch
\* size of at most MaxBatchSize.
MaxSamples == 5

MaxBatchSize == 3

(***************************************************************************)
(* Values of the source.                                                   *)
(***************************************************************************)
\* The default of --hidden-dimension.
HiddenDimension == 128

(***************************************************************************)
(* Results of calls, and the state of a part of the program that a         *)
(* specification does not run.                                             *)
(***************************************************************************)
\* A call that raised an exception of class exc.
Raised(exc) == [exc |-> exc, value |-> << >>]

\* A call that returned v.
Returned(v) == [exc |-> "none", value |-> <<v>>]

\* No keyword arguments.
NoKwargs == [f \in {} |-> 0]

SchemaIdle ==
    /\ call = [op |-> "idle", shape |-> "", size |-> "", kw |-> NoKwargs, vec |-> << >>]
    /\ params = << >>
    /\ flat = << >>
    /\ entry = << >>
    /\ processed_entry = << >>

TextIdle ==
    /\ description = << >>
    /\ processed = << >>
    /\ reprocessed = << >>

InferIdle ==
    /\ ipc = "idle"
    /\ artifacts = << >>
    /\ loaded_artifacts = {}
    /\ raw_output = << >>
    /\ shape_prediction_params = << >>
    /\ objects = << >>
    /\ output_file = << >>
    /\ doc = << >>
    /\ obj_count = 0
    /\ iexc = "none"
    /\ result = << >>

TrainIdle ==
    /\ tpc = "idle"
    /\ args = << >>
    /\ files = << >>
    /\ loaded = << >>
    /\ dataset = << >>
    /\ processed_dataset = << >>
    /\ train_df = << >>
    /\ test_df = << >>
    /\ vectorizer = << >>
    /\ X_train = << >>
    /\ X_test = << >>
    /\ model = << >>
    /\ epoch = 0
    /\ texc = "none"

GenIdle ==
    /\ gpc = "idle"
    /\ run = << >>
    /\ gdataset = << >>
    /\ gfile = << >>
    /\ gexc = "none"

PassIdle ==
    /\ ppc = "idle"
    /\ pass = << >>
    /\ batches = << >>
    /\ optimizer_steps = 0
    /\ epoch_loss = 0
    /\ avg_loss = << >>
    /\ pexc = "none"

PipeIdle == infer_args = << >>

(***************************************************************************)
(* SupportedShapes (geometric_primitives.py).  BOX = 2 is declared after   *)
(* CUBE = 2, so BOX is an alias of the member CUBE: the enum has eight     *)
(* members, named by their first declaration.                              *)
(***************************************************************************)
Members == {"PLANE", "CUBE", "CYLINDER", "CONE", "SPHERE", "TORUS", "HELIX", "CIRCLE"}

\* member.value
EnumValue(m) ==
    CASE m = "PLANE"    -> 1
      [] m = "CUBE"     -> 2
      [] m = "CYLINDER" -> 3
      [] m = "CONE"     -> 4
      [] m = "SPHERE"   -> 5
      [] m = "TORUS"    -> 7
      [] m = "HELIX"    -> 10
      [] m = "CIRCLE"   -> 12

\* SupportedShapes[name]: lookup by declared name, aliases included
\* (optional: empty when Python raises KeyError).
MemberByName(name) ==
    IF name = "BOX" THEN <<"CUBE">>
    ELSE IF name \in Members THEN <<name>>
    ELSE << >>

\* A mutation of MemberByValue: the member whose value is nearest to v.
MemberByValueNearest(v) ==
    <<CHOOSE m \in Members :
        \A n \in Members :
            (IF EnumValue(m) < v THEN v - EnumValue(m) ELSE EnumValue(m) - v)
              <= (IF EnumValue(n) < v THEN v - EnumValue(n) ELSE EnumValue(n) - v)>>

\* SupportedShapes(value): lookup by value (empty when Python raises ValueError).
MemberByValue(v) ==
    IF \E m \in Members : EnumValue(m) = v
    THEN <<CHOOSE m \in Members : EnumValue(m) = v>>
    ELSE << >>

\* SupportedShapes.__str__: the member's name, lower-cased.
StrOfMember(m) ==
    CASE m = "PLANE"    -> "plane"
      [] m = "CUBE"     -> "cube"
      [] m = "CYLINDER" -> "cylinder"
      [] m = "CONE"     -> "cone"
      [] m = "SPHERE"   -> "sphere"
      [] m = "TORUS"    -> "torus"
      [] m = "HELIX"    -> "helix"
      [] m = "CIRCLE"   -> "circle"

\* The attribute access SupportedShapes.<NAME> (optional: empty when the
\* enum declares no such name and Python raises AttributeError).
MemberAttr(name) == MemberByName(name)

\* str.upper() on the shape strings the model uses.
Upper(s) ==
    CASE s = "plane"    -> "PLANE"
      [] s = "box"      -> "BOX"
      [] s = "cube"     -> "CUBE"
      [] s = "cylinder" -> "CYLINDER"
      [] s = "cone"     -> "CONE"
      [] s = "sphere"   -> "SPHERE"
      [] s = "torus"    -> "TORUS"
      [] s = "helix"    -> "HELIX"
      [] s = "circle"   -> "CIRCLE"
      [] s = "polygon"  -> "POLYGON"
      [] s = "pyramid"  -> "PYRAMID"
      [] s = "Cone"     -> "CONE"
      [] s = ""         -> ""

(***************************************************************************)
(* Parameters (geometric_primitives.py): a dataclass with a shape and      *)
(* eight numeric fields that default to 0.                                 *)
(***************************************************************************)
Fields == <<"length", "width", "height", "radius", "radius1", "radius2", "pitch", "angle">>

FieldNames == {Fields[i] : i \in 1..Len(Fields)}

\* Parameters(shape=shape, **kw): kw maps the supplied field names to values.
NewParameters(shape, kw) ==
    [f \in FieldNames \cup {"shape"} |->
        IF f = "shape" THEN shape
        ELSE IF f \in DOMAIN kw THEN kw[f] ELSE 0]

\* A mutation of to_list: radius1 and radius2 change places.
ToListSwapped(p) ==
    <<EnumValue(p["shape"]), p["length"], p["width"], p["height"], p["radius"],
      p["radius2"], p["radius1"], p["pitch"], p["angle"]>>

\* Parameters.to_list
ToList(p) ==
    <<EnumValue(p["shape"]), p["length"], p["width"], p["height"], p["radius"],
      p["radius1"], p["radius2"], p["pitch"], p["angle"]>>

(***************************************************************************)
(* from_list_to_parameter (parameter_tools.py).                            *)
(***************************************************************************)
\* The index table p of from_list_to_parameter (Python indices, from 0).
ParamIndex ==
    [length |-> 0, width |-> 1, height |-> 2, radius |-> 3,
     radius1 |-> 4, radius2 |-> 5, pitch |-> 5, angle |-> 7]

\* parameters[i] with Python's indexing from 0.
At(list, i) == list[i + 1]

\* The if/elif chain: the enum names each condition compares the shape with
\* (by str(SupportedShapes.<NAME>)) and the fields its branch reads.
Branches ==
    << [names |-> <<"PLANE">>,       fields |-> {"length", "width"}],
       [names |-> <<"CUBE", "BOX">>, fields |-> {"length", "width", "height"}],
       [names |-> <<"CYLINDER">>,    fields |-> {"radius", "height"}],
       [names |-> <<"CONE">>,        fields |-> {"radius1", "radius2", "height"}],
       [names |-> <<"SPHERE">>,      fields |-> {"radius"}],
       [names |-> <<"TORUS">>,       fields |-> {"radius1", "radius2"}],
       [names |-> <<"HELIX">>,       fields |-> {"pitch", "height", "radius", "angle"}],
       [names |-> <<"CIRCLE">>,      fields |-> {"radius"}],
       [names |-> <<"POLYGON">>,     fields |-> {}] >>

\* One condition `shape == str(SupportedShapes.A) or shape == str(SupportedShapes.B)`:
\* "match", "nomatch", or "AttributeError" when a name it evaluates is not declared.
RECURSIVE TestNames(_, _, _)
TestNames(shape, names, k) ==
    IF k > Len(names) THEN "nomatch"
    ELSE IF MemberAttr(names[k]) = << >> THEN "AttributeError"
    ELSE IF shape = StrOfMember(MemberAttr(names[k])[1]) THEN "match"
    ELSE TestNames(shape, names, k + 1)

\* The body of a matched branch: Parameters(shape=SupportedShapes[shape.upper()], ...).
BranchBody(shape, parameters, fields) ==
    IF MemberByName(Upper(shape)) = << >> THEN Raised("KeyError")
    ELSE Returned(NewParameters(MemberByName(Upper(shape))[1],
                                [f \in fields |-> At(parameters, ParamIndex[f])]))

RECURSIVE WalkBranches(_, _, _)
WalkBranches(shape, parameters, i) ==
    IF i > Len(Branches) THEN Raised("ValueError")
    ELSE LET t == TestNames(shape, Branches[i].names, 1) IN
         CASE t = "match"          -> BranchBody(shape, parameters, Branches[i].fields)
           [] t = "AttributeError" -> Raised("AttributeError")
           [] OTHER                -> WalkBranches(shape, parameters, i + 1)

FromListToParameter(shape, parameters) == WalkBranches(shape, parameters, 1)

(***************************************************************************)
(* The generators (training_data_generation/scripts).  Sampled quantities  *)
(* are fixed-point numbers counted in tenths of a unit, so 0.1 is 1.       *)
(***************************************************************************)
Sizes == {"small", "medium", "large"}

\* size_to_range, the same table in every generator, in tenths.
SizeToRange(size) ==
    CASE size = "small"  -> <<10, 100>>
      [] size = "medium" -> <<110, 500>>
      [] size = "large"  -> <<510, 1000>>

\* random.uniform(a, b) = a + (b-a) * random(): any point between a and b, in
\* either order; both end points can be returned (b by rounding).  The model
\* draws the end points and the multiples of SampleStep between them.
Uniform(a, b) ==
    LET lo == IF a <= b THEN a ELSE b
        hi == IF a <= b THEN b ELSE a
    IN  {x \in lo..hi : x = lo \/ x = hi \/ x % SampleStep = 0}

\* generate_cone_data.generate_random_parameters: <<base_radius, top_radius, height>>
ConeParameters(size) ==
    UNION { {<<base, top, height>> :
                top \in Uniform(1, base),
                height \in Uniform(SizeToRange(size)[1], SizeToRange(size)[2])} :
            base \in Uniform(SizeToRange(size)[1], SizeToRange(size)[2]) }

\* generate_torus_data.generate_random_parameters: <<major_radius, minor_radius>>
TorusParameters(size) ==
    UNION { {<<major, minor>> : minor \in Uniform(10, major - 1)} :
            major \in Uniform(SizeToRange(size)[1], SizeToRange(size)[2]) }

\* A mutation of RangeDraw: the draw starts a tenth below the size range.
RangeDrawFromBelow(size) == Uniform(SizeToRange(size)[1] - 1, SizeToRange(size)[2])

\* The draws of the generators whose parameters are independent: one draw
\* from the size range per parameter.
RangeDraw(size) == Uniform(SizeToRange(size)[1], SizeToRange(size)[2])

\* The generators, by the script's shape: the string each writes into the
\* record's "shape", the enum name it passes to Parameters, and the keyword
\* arguments it can pass for a size.
Generators == {"plane", "box", "cube", "cylinder", "cone", "sphere", "torus", "helix"}

\* A mutation of GeneratorShapeName: the box records are built as planes.
GeneratorShapeNameOfPlane(g) == IF g = "box" THEN "PLANE" ELSE Upper(g)

GeneratorShapeName(g) == IF g = "box" THEN "BOX" ELSE Upper(g)

GeneratorKwargs(g, size) ==
    CASE g = "plane" ->
           {[width |-> w, height |-> h] : w \in RangeDraw(size), h \in RangeDraw(size)}
      [] g = "box" ->
           {[length |-> l, width |-> w, height |-> h] :
               l \in RangeDraw(size), w \in RangeDraw(size), h \in RangeDraw(size)}
      [] g = "cube" ->
           {[length |-> s, width |-> s, height |-> s] : s \in RangeDraw(size)}
      [] g = "cylinder" ->
           {[radius |-> r, height |-> h] : r \in RangeDraw(size), h \in RangeDraw(size)}
      [] g = "cone" ->
           {[radius1 |-> c[1], radius2 |-> c[2], height |-> c[3]] : c \in ConeParameters(size)}
      [] g = "sphere" ->
           {[radius |-> r] : r \in RangeDraw(size)}
      [] g = "torus" ->
           {[radius1 |-> t[1], radius2 |-> t[2]] : t \in TorusParameters(size)}
      [] g = "helix" ->
           {[pitch |-> p, height |-> h, radius |-> r, angle |-> a] :
               p \in RangeDraw(size), h \in RangeDraw(size), r \in RangeDraw(size),
               a \in Uniform(0, 3600)}

\* A mutation of GeneratorEntry: a cube is stored with its length only.
GeneratorEntryCubeLengthOnly(g, kw) ==
    [shape |-> g,
     cad_parameters |-> ToList(NewParameters(MemberAttr(GeneratorShapeName(g))[1],
                                             IF g = "cube" THEN [length |-> kw.length] ELSE kw))]

\* The record a generator appends: {"shape": ..., "cad_parameters": to_list()}
\* (its description is added by the description model).
GeneratorEntry(g, kw) ==
    [shape |-> g,
     cad_parameters |-> ToList(NewParameters(MemberAttr(GeneratorShapeName(g))[1], kw))]

(***************************************************************************)
(* The schema specification: Parameters are constructed and flattened; a   *)
(* generator writes an entry; the training driver converts an entry.       *)
(***************************************************************************)
\* Every way to supply some of the eight fields.
AllKwargs ==
    UNION {[S -> 1..MaxValue] : S \in SUBSET FieldNames}

\* Shape strings of dataset entries that name no supported shape kind.
UnsupportedShapeStrings == {"polygon", "pyramid", "Cone", ""}

\* The inputs a run starts from: a call Parameters(shape=m, **kw), one
\* iteration of generator g's loop with the draws kw, or a dataset entry
\* read from a file.
ConstructCalls ==
    {[op |-> "construct", shape |-> m, size |-> "", kw |-> kw, vec |-> << >>] :
        m \in Members, kw \in AllKwargs}

GenerateCalls ==
    UNION { {[op |-> "generate", shape |-> gs[1], size |-> gs[2], kw |-> kw, vec |-> << >>] :
                kw \in GeneratorKwargs(gs[1], gs[2])} :
            gs \in Generators \X Sizes }

LoadCalls ==
    {[op |-> "load", shape |-> s, size |-> "", kw |-> NoKwargs, vec |-> v] :
        s \in UnsupportedShapeStrings,
        v \in {[i \in 1..9 |-> 0], [i \in 1..9 |-> i]}}

\* Parameters(shape=m, **kw)
Construct ==
    /\ call.op = "construct"
    /\ params = << >>
    /\ params' = <<NewParameters(call.shape, call.kw)>>
    /\ UNCHANGED <<call, flat, entry, processed_entry>>

\* params.to_list()
CallToList ==
    /\ params # << >>
    /\ flat = << >>
    /\ flat' = <<ToList(params[1])>>
    /\ UNCHANGED <<call, params, entry, processed_entry>>

\* One iteration of a generator's loop, as far as the schema goes.
GenerateEntry ==
    /\ call.op = "generate"
    /\ entry = << >>
    /\ entry' = <<GeneratorEntry(call.shape, call.kw)>>
    /\ UNCHANGED <<call, params, flat, processed_entry>>

\* A dataset file holds an entry whose shape string no generator writes.
LoadForeignEntry ==
    /\ call.op = "load"
    /\ entry = << >>
    /\ entry' = <<[shape |-> call.shape, cad_parameters |-> call.vec]>>
    /\ UNCHANGED <<call, params, flat, processed_entry>>

\* train_model.py, one iteration of the conversion loop:
\* new_params = from_list_to_parameter(shape, cad_parameters).to_list()
ConvertOne(e) ==
    LET r == FromListToParameter(e.shape, e.cad_parameters) IN
    [exc |-> r.exc,
     cad_parameters |-> IF r.exc = "none" THEN ToList(r.value[1]) ELSE << >>]

ConvertEntry ==
    /\ entry # << >>
    /\ processed_entry = << >>
    /\ processed_entry' = <<ConvertOne(entry[1])>>
    /\ UNCHANGED <<call, params, flat, entry>>

InitSchema ==
    /\ call \in ConstructCalls \cup GenerateCalls \cup LoadCalls
    /\ params = << >>
    /\ flat = << >>
    /\ entry = << >>
    /\ processed_entry = << >>
    /\ TextIdle
    /\ InferIdle
    /\ TrainIdle
    /\ GenIdle
    /\ PassIdle
    /\ PipeIdle

NextSchema ==
    \/ Construct /\ UNCHANGED <<textVars, inferVars, trainVars, genVars, passVars, pipeVars>>
    \/ CallToList /\ UNCHANGED <<textVars, inferVars, trainVars, genVars, passVars, pipeVars>>
    \/ GenerateEntry /\ UNCHANGED <<textVars, inferVars, trainVars, genVars, passVars, pipeVars>>
    \/ LoadForeignEntry /\ UNCHANGED <<textVars, inferVars, trainVars, genVars, passVars, pipeVars>>
    \/ ConvertEntry /\ UNCHANGED <<textVars, inferVars, trainVars, genVars, passVars, pipeVars>>

SpecSchema == InitSchema /\ [][NextSchema]_vars

(***************************************************************************)
(* Claims about the parameter schema and the generators' draws, checked    *)
(* under SpecSchema.                                                       *)
(***************************************************************************)
\* C1 as stated: for every entry a generator builds, decoding the stored
\* vector with from_list_to_parameter(shape, cad_parameters) and encoding the
\* result with to_list() gives the stored vector back.
C1_RoundTrip ==
    (call.op = "generate" /\ processed_entry # << >>) =>
        /\ processed_entry[1].exc = "none"
        /\ processed_entry[1].cad_parameters = entry[1].cad_parameters

\* The order of the flattened vector after the shape value.
C2_Order == <<"length", "width", "height", "radius", "radius1", "radius2", "pitch", "angle">>

\* C2: to_list() returns 9 elements, the shape's value and then length,
\* width, height, radius, radius1, radius2, pitch, angle, each with the value
\* supplied at construction, or 0 when none was supplied.
C2_ToListLayout ==
    (call.op = "construct" /\ flat # << >>) =>
        /\ Len(flat[1]) = 9
        /\ flat[1][1] = EnumValue(call.shape)
        /\ \A i \in 1..8 :
              flat[1][i + 1] = IF C2_Order[i] \in DOMAIN call.kw THEN call.kw[C2_Order[i]] ELSE 0

\* A cone flattened with radius1 = 1 and radius2 = 2 supplied, the rest not.
C2_Witness ==
    /\ call.op = "construct"
    /\ call.shape = "CONE"
    /\ call.kw = [radius1 |-> 1, radius2 |-> 2]
    /\ flat = <<(<<4, 0, 0, 0, 0, 1, 2, 0, 0>>)>>

\* C3 as stated: in every record of the cone generator radius2 (the top
\* radius) is strictly below radius1 (the base radius), and in every record of
\* the torus generator radius2 (the minor radius) is strictly below radius1
\* (the major radius), for every size and every value of the closed intervals
\* the draws sample from.
C3_MinorBelowMajor ==
    (call.op = "generate" /\ call.shape \in {"cone", "torus"} /\ entry # << >>) =>
        entry[1].cad_parameters[7] < entry[1].cad_parameters[6]

\* C9 as stated: from_list_to_parameter with a shape string that names no
\* supported shape kind raises ValueError, returns nothing, and raises no
\* other kind of error.
C9_UnsupportedRaisesValueError ==
    (call.op = "load" /\ processed_entry # << >>) =>
        /\ processed_entry[1].exc = "ValueError"
        /\ processed_entry[1].cad_parameters = << >>

(***************************************************************************)
(* The text encoder: preprocess_description (common.py).  A Python string  *)
(* is a sequence of one-character strings.                                 *)
(***************************************************************************)
UpperLetters ==
    <<"A", "B", "C", "D", "E", "F", "G", "H", "I", "J", "K", "L", "M", "N", "O", "P", "Q", "R", "S", "T", "U", "V", "W", "X", "Y", "Z">>

LowerLetters ==
    <<"a", "b", "c", "d", "e", "f", "g", "h", "i", "j", "k", "l", "m", "n", "o", "p", "q", "r", "s", "t", "u", "v", "w", "x", "y", "z">>

DigitChars == <<"0", "1", "2", "3", "4", "5", "6", "7", "8", "9">>

Range(s) == {s[i] : i \in 1..Len(s)}

IsDigit(c) == c \in Range(DigitChars)

\* \w of the re module, on the model's characters.
IsWordChar(c) == c \in Range(UpperLetters) \cup Range(LowerLetters) \cup Range(DigitChars) \cup {"_"}

\* str.lower(), one character.
LowerChar(c) ==
    IF c \in Range(UpperLetters)
    THEN LowerLetters[CHOOSE i \in 1..Len(UpperLetters) : UpperLetters[i] = c]
    ELSE c

\* str.lower()
RECURSIVE Lower(_)
Lower(s) == IF s = << >> THEN << >> ELSE <<LowerChar(Head(s))>> \o Lower(Tail(s))

\* The alternation of the keyword pattern, in its order.
Vocabulary ==
    << <<"p", "l", "a", "n", "e">>,
       <<"b", "o", "x">>,
       <<"c", "y", "l", "i", "n", "d", "e", "r">>,
       <<"c", "o", "n", "e">>,
       <<"s", "p", "h", "e", "r", "e">>,
       <<"e", "l", "l", "i", "p", "s", "o", "i", "d">>,
       <<"t", "o", "r", "u", "s">>,
       <<"p", "r", "i", "s", "m">>,
       <<"w", "e", "d", "g", "e">>,
       <<"h", "e", "l", "i", "x">>,
       <<"s", "p", "i", "r", "a", "l">>,
       <<"c", "i", "r", "c", "l", "e">>,
       <<"e", "l", "l", "i", "p", "s", "e">>,
       <<"p", "o", "i", "n", "t">>,
       <<"l", "i", "n", "e">>,
       <<"p", "o", "l", "y", "g", "o", "n">>,
       <<"r", "a", "d", "i", "u", "s">>,
       <<"h", "e", "i", "g", "h", "t">>,
       <<"t", "a", "l", "l">>,
       <<"d", "i", "a", "m", "e", "t", "e", "r">>,
       <<"w", "i", "d", "t", "h">>,
       <<"l", "e", "n", "g", "t", "h">>,
       <<"u", "n", "i", "t", "s">>,
       <<"a", "n", "g", "l", "e">>,
       <<"d", "e", "g", "r", "e", "e", "s">>,
       <<"r", "a", "d", "i", "a", "n", "s">>,
       <<"p", "i", "t", "c", "h">> >>

\* True when position k of s holds a word character.
IsWordAt(s, k) == k \in 1..Len(s) /\ IsWordChar(s[k])

\* \b between the characters k-1 and k of s.
WordBoundary(s, k) == IsWordAt(s, k - 1) # IsWordAt(s, k)

\* True when s holds w from position i on.
HasAt(s, i, w) ==
    /\ i + Len(w) - 1 <= Len(s)
    /\ \A k \in 1..Len(w) : s[i + k - 1] = w[k]

\* The alternatives of \b(...)\b that match s at position i.
KeywordsAt(s, i) ==
    IF ~WordBoundary(s, i) THEN {}
    ELSE {k \in 1..Len(Vocabulary) :
            /\ HasAt(s, i, Vocabulary[k])
            /\ WordBoundary(s, i + Len(Vocabulary[k]))}

Least(S) == CHOOSE x \in S : \A y \in S : x <= y

\* re.findall of the keyword pattern from position i on: at each position the
\* first alternative that matches, then on from the end of the match.
RECURSIVE FindKeywords(_, _)
FindKeywords(s, i) ==
    IF i > Len(s) THEN << >>
    ELSE IF KeywordsAt(s, i) = {} THEN FindKeywords(s, i + 1)
    ELSE LET w == Vocabulary[Least(KeywordsAt(s, i))] IN
         <<w>> \o FindKeywords(s, i + Len(w))

\* The last position of the run of digits that starts at i (i - 1 when s
\* holds no digit at i).
RECURSIVE DigitRunEnd(_, _)
DigitRunEnd(s, i) ==
    IF i <= Len(s) /\ IsDigit(s[i]) THEN DigitRunEnd(s, i + 1) ELSE i - 1

\* A mutation of NumberEnd: the pattern \d+, without the fraction.
NumberEndDigitsOnly(s, i) == DigitRunEnd(s, i)

\* The end of the match of \d+\.?\d* that starts at the digit at i.
NumberEnd(s, i) ==
    LET e == DigitRunEnd(s, i) IN
    IF e + 1 <= Len(s) /\ s[e + 1] = "." THEN DigitRunEnd(s, e + 2) ELSE e

\* re.findall(r"\d+\.?\d*", s) from position i on, as <<first, last>> spans.
RECURSIVE FindNumbers(_, _)
FindNumbers(s, i) ==
    IF i > Len(s) THEN << >>
    ELSE IF IsDigit(s[i]) THEN <<(<<i, NumberEnd(s, i)>>)>> \o FindNumbers(s, NumberEnd(s, i) + 1)
    ELSE FindNumbers(s, i + 1)

SpanText(s, span) == SubSeq(s, span[1], span[2])

\* The position of the first "." of lit, or 0.
DotPos(lit) ==
    IF \E i \in 1..Len(lit) : lit[i] = "."
    THEN Least({i \in 1..Len(lit) : lit[i] = "."})
    ELSE 0

IntDigits(lit) == IF DotPos(lit) = 0 THEN lit ELSE SubSeq(lit, 1, DotPos(lit) - 1)

FracDigits(lit) == IF DotPos(lit) = 0 THEN << >> ELSE SubSeq(lit, DotPos(lit) + 1, Len(lit))

\* The literals float() accepts among the texts the pattern can match:
\* digits, then optionally a point and digits (float() raises ValueError on
\* anything else).
FloatSyntaxOk(lit) ==
    /\ IntDigits(lit) # << >>
    /\ \A i \in 1..Len(IntDigits(lit)) : IsDigit(IntDigits(lit)[i])
    /\ \A i \in 1..Len(FracDigits(lit)) : IsDigit(FracDigits(lit)[i])

RECURSIVE StripLeadingZeros(_)
StripLeadingZeros(ds) ==
    IF ds # << >> /\ Head(ds) = "0" THEN StripLeadingZeros(Tail(ds)) ELSE ds

RECURSIVE StripTrailingZeros(_)
StripTrailingZeros(ds) ==
    IF ds # << >> /\ ds[Len(ds)] = "0"
    THEN StripTrailingZeros(SubSeq(ds, 1, Len(ds) - 1))
    ELSE ds

\* float(lit): the value, as its decimal digits before and after the point
\* without the zeros that do not count.  (Exact for literals of up to 15
\* significant digits, which the model's inputs stay below.)
ParseFloat(lit) ==
    [int  |-> StripLeadingZeros(IntDigits(lit)),
     frac |-> StripTrailingZeros(FracDigits(lit))]

\* A natural number in decimal, at least two digits (the exponent of repr).
RECURSIVE NatChars(_)
NatChars(n) ==
    IF n < 10 THEN <<DigitChars[n + 1]>>
    ELSE NatChars(n \div 10) \o <<DigitChars[(n % 10) + 1]>>

ExponentChars(n) == IF n < 10 THEN <<"0">> \o NatChars(n) ELSE NatChars(n)

\* d[.ddd]e<sign>XX
Scientific(digits, sign, exponent) ==
    <<Head(digits)>>
    \o (IF Len(digits) > 1 THEN <<".">> \o Tail(digits) ELSE << >>)
    \o <<"e", sign>> \o ExponentChars(exponent)

\* A mutation of FloatStr: a whole number is written without ".0".
FloatStrNoPoint(v) ==
    IF v.frac = << >> THEN (IF v.int = << >> THEN <<"0">> ELSE v.int)
    ELSE (IF v.int = << >> THEN <<"0">> ELSE v.int) \o <<".">> \o v.frac

\* str(value) of a float (float.__repr__): positional notation, except that
\* a value of 1e16 or more, or a non-zero value below 0.0001, is written with
\* an exponent.
FloatStr(v) ==
    IF v.int = << >> /\ v.frac = << >> THEN <<"0", ".", "0">>
    ELSE IF v.int # << >> THEN
        IF Len(v.int) > 16
        THEN Scientific(StripTrailingZeros(v.int \o v.frac), "+", Len(v.int) - 1)
        ELSE v.int \o <<".">> \o (IF v.frac = << >> THEN <<"0">> ELSE v.frac)
    ELSE
        IF Len(v.frac) - Len(StripLeadingZeros(v.frac)) > 3
        THEN Scientific(StripLeadingZeros(v.frac), "-",
                        Len(v.frac) - Len(StripLeadingZeros(v.frac)) + 1)
        ELSE <<"0", ".">> \o v.frac

\* " ".join(parts)
RECURSIVE JoinSpace(_)
JoinSpace(parts) ==
    IF parts = << >> THEN << >>
    ELSE IF Len(parts) = 1 THEN parts[1]
    ELSE parts[1] \o <<" ">> \o JoinSpace(Tail(parts))

\* numerical_values = [float(num) for num in re.findall(...)], when no
\* float() raises.
NumericalValues(text) ==
    LET spans == FindNumbers(text, 1) IN
    [k \in 1..Len(spans) |-> ParseFloat(SpanText(text, spans[k]))]

\* keywords = re.findall(<keyword pattern>, description.lower())
Keywords(text) == FindKeywords(Lower(text), 1)

\* A mutation of Combined: the numbers first, then the keywords.
CombinedNumbersFirst(keywords, values) ==
    JoinSpace([k \in 1..Len(values) |-> FloatStr(values[k])]) \o <<" ">> \o JoinSpace(keywords)

\* combined = " ".join(keywords) + " " + " ".join(map(str, numerical_values))
Combined(keywords, values) ==
    JoinSpace(keywords) \o <<" ">> \o JoinSpace([k \in 1..Len(values) |-> FloatStr(values[k])])

\* preprocess_description
PreprocessDescription(text) ==
    LET spans == FindNumbers(text, 1) IN
    IF \E k \in 1..Len(spans) : ~FloatSyntaxOk(SpanText(text, spans[k]))
    THEN Raised("ValueError")
    ELSE Returned(Combined(Keywords(text), NumericalValues(text)))

(***************************************************************************)
(* The text specification: a description is preprocessed, and the result   *)
(* is preprocessed again.                                                  *)
(***************************************************************************)
\* The descriptions are the texts below and every concatenation of at most
\* MaxPieces of the pieces.
Pieces ==
    << <<" ">>,
       <<"b", "o", "x">>,
       <<"C", "o", "n", "e">>,
       <<"u", "n", "i", "t", "s">>,
       <<"x">>,
       <<"_">>,
       <<"-">>,
       <<"7">>,
       <<"0", "0">>,
       <<".">> >>

ExampleDescription ==
    \* "A small cylinder with a radius of 5.00 units"
    <<"A", " ", "s", "m", "a", "l", "l", " ", "c", "y", "l", "i", "n", "d", "e", "r", " ", "w", "i", "t", "h", " ", "a", " ", "r", "a", "d", "i", "u", "s", " ", "o", "f", " ", "5", ".", "0", "0", " ", "u", "n", "i", "t", "s">>

ExtraDescriptions ==
    { \* "pitch 0.00005"
      <<"p", "i", "t", "c", "h", " ", "0", ".", "0", "0", "0", "0", "5">>,
      \* "Radius:5.,HEIGHT=12.50"
      <<"R", "a", "d", "i", "u", "s", ":", "5", ".", ",", "H", "E", "I", "G", "H", "T", "=", "1", "2", ".", "5", "0">>,
      \* "1.2.3 boxes, 2 Box(es)"
      <<"1", ".", "2", ".", "3", " ", "b", "o", "x", "e", "s", ",", " ", "2", " ", "B", "o", "x", "(", "e", "s", ")">>,
      \* "7 units tall cone"
      <<"7", " ", "u", "n", "i", "t", "s", " ", "t", "a", "l", "l", " ", "c", "o", "n", "e">> }

RECURSIVE Concat(_)
Concat(seqs) == IF seqs = << >> THEN << >> ELSE Head(seqs) \o Concat(Tail(seqs))

Descriptions ==
    {ExampleDescription} \cup ExtraDescriptions
    \cup { Concat([i \in 1..Len(f) |-> Pieces[f[i]]]) :
             f \in UNION {[1..n -> 1..Len(Pieces)] : n \in 0..MaxPieces} }

\* processed = preprocess_description(description)
Preprocess ==
    /\ processed = << >>
    /\ processed' = <<PreprocessDescription(description)>>
    /\ UNCHANGED <<description, reprocessed>>

\* reprocessed = preprocess_description(processed)
PreprocessAgain ==
    /\ processed # << >>
    /\ processed[1].exc = "none"
    /\ reprocessed = << >>
    /\ reprocessed' = <<PreprocessDescription(processed[1].value[1])>>
    /\ UNCHANGED <<description, processed>>

InitText ==
    /\ description \in Descriptions
    /\ processed = << >>
    /\ reprocessed = << >>
    /\ SchemaIdle
    /\ InferIdle
    /\ TrainIdle
    /\ GenIdle
    /\ PassIdle
    /\ PipeIdle

NextText ==
    \/ Preprocess /\ UNCHANGED <<schemaVars, inferVars, trainVars, genVars, passVars, pipeVars>>
    \/ PreprocessAgain /\ UNCHANGED <<schemaVars, inferVars, trainVars, genVars, passVars, pipeVars>>

SpecText == InitText /\ [][NextText]_vars

(***************************************************************************)
(* Claims about the text encoder, checked under SpecText.                  *)
(***************************************************************************)
C4_Cylinder == <<"c", "y", "l", "i", "n", "d", "e", "r">>

C4_Radius == <<"r", "a", "d", "i", "u", "s">>

C4_Units == <<"u", "n", "i", "t", "s">>

C4_Five == [int |-> <<"5">>, frac |-> << >>]

C4_ExampleDone == description = ExampleDescription /\ processed # << >>

\* C4 as stated: preprocess_description("A small cylinder with a radius of
\* 5.00 units") extracts the keywords [cylinder, radius] and the number 5.0
\* and returns "cylinder radius 5.0".
C4_ExampleAsStated ==
    C4_ExampleDone =>
        /\ Keywords(description) = <<C4_Cylinder, C4_Radius>>
        /\ NumericalValues(description) = <<C4_Five>>
        /\ processed[1] = Returned(<<"c", "y", "l", "i", "n", "d", "e", "r", " ", "r", "a", "d", "i", "u", "s", " ", "5", ".", "0">>)

\* C4 amended: the description's last word, "units", is a vocabulary word
\* too: the keywords are [cylinder, radius, units], the number is 5.0 and the
\* result is "cylinder radius units 5.0".
C4_Example ==
    C4_ExampleDone =>
        /\ Keywords(description) = <<C4_Cylinder, C4_Radius, C4_Units>>
        /\ NumericalValues(description) = <<C4_Five>>
        /\ processed[1] = Returned(<<"c", "y", "l", "i", "n", "d", "e", "r", " ", "r", "a", "d", "i", "u", "s", " ", "u", "n", "i", "t", "s", " ", "5", ".", "0">>)

C4_Witness == C4_ExampleDone

\* The positions where a word (a maximal run of word characters) starts.
C5_WordStarts(d) == {i \in 1..Len(d) : IsWordAt(d, i) /\ ~IsWordAt(d, i - 1)}

\* The word that starts at i.
C5_WordAt(d, i) ==
    SubSeq(d, i, Least({j \in i..Len(d) : ~IsWordAt(d, j + 1)}))

\* The elements of a set of positions, in increasing order.
RECURSIVE C5_Ascending(_)
C5_Ascending(S) ==
    IF S = {} THEN << >> ELSE <<Least(S)>> \o C5_Ascending(S \ {Least(S)})

\* Every whole word of d that is, in lower case, a vocabulary word, in order.
C5_KeywordPart(d) ==
    LET starts == C5_Ascending({i \in C5_WordStarts(d) :
                                    Lower(C5_WordAt(d, i)) \in Range(Vocabulary)})
    IN  [k \in 1..Len(starts) |-> Lower(C5_WordAt(d, starts[k]))]

\* A decimal literal: digits, then optionally a point and digits.
C5_IsLiteral(t) ==
    /\ t # << >>
    /\ IsDigit(t[1])
    /\ \A i \in 1..Len(t) : IsDigit(t[i]) \/ t[i] = "."
    /\ Cardinality({i \in 1..Len(t) : t[i] = "."}) <= 1

\* The spans are the decimal literals of d, each as long as it can be, in
\* order of occurrence, and no digit of d lies outside them.
C5_LiteralsOf(d, spans) ==
    /\ \A k \in 1..Len(spans) :
          /\ 1 <= spans[k][1] /\ spans[k][1] <= spans[k][2] /\ spans[k][2] <= Len(d)
          /\ C5_IsLiteral(SpanText(d, spans[k]))
          /\ ~(spans[k][2] < Len(d) /\ IsDigit(d[spans[k][2] + 1]))
          /\ ~(/\ spans[k][2] < Len(d)
               /\ d[spans[k][2] + 1] = "."
               /\ "." \notin Range(SpanText(d, spans[k])))
    /\ \A k \in 1..(Len(spans) - 1) : spans[k][2] < spans[k + 1][1]
    /\ \A i \in 1..Len(d) :
          IsDigit(d[i]) => \E k \in 1..Len(spans) : spans[k][1] <= i /\ i <= spans[k][2]

\* C5: the result of preprocess_description is the keyword part, one space,
\* then the numeric part: the keyword part is every whole-word occurrence of a
\* vocabulary word (case-insensitive, repeats kept) in order, the numeric part
\* is every decimal literal in order (as str() writes its value), no number
\* comes before a keyword, a part with no match is empty, and nothing raises.
C5_OutputContract ==
    processed # << >> =>
        LET spans == FindNumbers(description, 1) IN
        /\ processed[1].exc = "none"
        /\ C5_LiteralsOf(description, spans)
        /\ processed[1].value[1] =
              JoinSpace(C5_KeywordPart(description)) \o <<" ">>
              \o JoinSpace([k \in 1..Len(spans) |->
                               FloatStr(ParseFloat(SpanText(description, spans[k])))])

\* "7 units tall cone": a number written before the keywords.
C5_Witness ==
    /\ description = <<"7", " ", "u", "n", "i", "t", "s", " ", "t", "a", "l", "l", " ", "c", "o", "n", "e">>
    /\ processed # << >>
    /\ processed[1].value[1] = <<"u", "n", "i", "t", "s", " ", "t", "a", "l", "l", " ", "c", "o", "n", "e", " ", "7", ".", "0">>

\* C6 as stated: preprocessing the result again gives the same result, for
\* every description.
C6_Idempotent ==
    reprocessed # << >> => reprocessed[1] = processed[1]

\* A value str() writes in positional notation: zero, or at least 0.0001 and
\* below 1e16.
C6_Positional(v) ==
    IF v.int # << >> THEN Len(v.int) <= 16
    ELSE v.frac = << >> \/ \E i \in 1..4 : i <= Len(v.frac) /\ v.frac[i] # "0"

\* C6 amended: preprocessing the result again gives the same result when
\* every number of the description is zero or at least 0.0001 and below 1e16.
C6_IdempotentPositional ==
    (/\ reprocessed # << >>
     /\ \A k \in 1..Len(NumericalValues(description)) :
           C6_Positional(NumericalValues(description)[k]))
    => reprocessed[1] = processed[1]

C6_Witness ==
    /\ description = ExampleDescription
    /\ reprocessed # << >>
    /\ processed[1].value[1] # description


(***************************************************************************)
(* The inference path: predict (common.py), from_model_output_to_object    *)
(* (parameter_tools.py), generate_freecad_file (freecad_tools.py) and the   *)
(* driver run_text_to_cad.py.  generate_freecad_file is also called         *)
(* directly with a list of objects (example_generate_freecad_shape.py).     *)
(***************************************************************************)
AbsInt(x) == IF x < 0 THEN -x ELSE x

\* predict: the model's output with abs() applied to every element.
AbsPrediction(raw) == [i \in 1..Len(raw) |-> AbsInt(raw[i])]

\* Object3D (freecad_tools.py).  The parameters field holds whatever the
\* caller passed: kind says whether it is a Parameters instance or a list.
Object3D(name, kind, parameters, translation, rotation) ==
    [name |-> name,
     parameters |-> [kind |-> kind, value |-> parameters],
     translation |-> translation,
     rotation |-> rotation]

\* A mutation of from_model_output_to_object: the whole vector as parameters.
ObjectFromWholeVector(shape_prediction_vector, pose_prediction_vector) ==
    IF MemberByValue(shape_prediction_vector[1]) = << >> THEN Raised("ValueError")
    ELSE Returned(Object3D(MemberByValue(shape_prediction_vector[1])[1],
                           "list", shape_prediction_vector,
                           SubSeq(pose_prediction_vector, 1, 3),
                           SubSeq(pose_prediction_vector, 4, 6)))

\* from_model_output_to_object
FromModelOutputToObject(shape_prediction_vector, pose_prediction_vector) ==
    IF Len(shape_prediction_vector) = 0 \/ Len(pose_prediction_vector) = 0
    THEN Raised("AssertionError")
    ELSE IF MemberByValue(shape_prediction_vector[1]) = << >> THEN Raised("ValueError")
    ELSE Returned(Object3D(MemberByValue(shape_prediction_vector[1])[1],
                           "list", Tail(shape_prediction_vector),
                           SubSeq(pose_prediction_vector, 1, 3),
                           SubSeq(pose_prediction_vector, 4, 6)))

\* The shape classes freecad_tools imports, which globals() holds.
ShapeClasses == {"Plane", "Box", "Cylinder", "Cone", "Sphere", "Torus", "Helix", "Circle"}

\* str.capitalize() of a member's str().
Capitalize(s) ==
    CASE s = "plane"    -> "Plane"
      [] s = "cube"     -> "Cube"
      [] s = "cylinder" -> "Cylinder"
      [] s = "cone"     -> "Cone"
      [] s = "sphere"   -> "Sphere"
      [] s = "torus"    -> "Torus"
      [] s = "helix"    -> "Helix"
      [] s = "circle"   -> "Circle"

\* The fields of Parameters that a class's from_parameters reads.
ClassFields(cls) ==
    CASE cls = "Plane"    -> {"length", "width"}
      [] cls = "Box"      -> {"length", "width", "height"}
      [] cls = "Cylinder" -> {"radius", "height"}
      [] cls = "Cone"     -> {"radius1", "radius2"}
      [] cls = "Sphere"   -> {"radius"}
      [] cls = "Torus"    -> {"radius1", "radius2"}
      [] cls = "Helix"    -> {"pitch", "height", "radius", "angle"}
      [] cls = "Circle"   -> {"radius"}

\* instantiate_from_string(class_name, name, parameters): the class looked up
\* in globals() by the capitalised name (KeyError when there is none), then
\* cls.from_parameters, which reads its fields as attributes of parameters
\* (AttributeError when parameters is a list) and calls the constructor.  Cone's
\* constructor is called without height, whose default is the type float,
\* which Part.makeCone rejects.
InstantiateFromString(class_name, name, parameters) ==
    IF Capitalize(class_name) \notin ShapeClasses THEN Raised("KeyError")
    ELSE IF parameters.kind # "Parameters" THEN Raised("AttributeError")
    ELSE IF Capitalize(class_name) = "Cone" THEN Raised("TypeError")
    ELSE Returned([cls |-> Capitalize(class_name), name |-> name,
                   dims |-> [f \in ClassFields(Capitalize(class_name)) |->
                                parameters.value[f]]])

\* The pose generate_freecad_file passes to add_to_doc.
PlacedTranslation == <<100, 10, 10>>

PlacedRotation == <<45, 0, 0>>

\* Shape.add_to_doc: doc.addObject, then the call of the module's function
\* __add_to_doc.  Inside a class body Python rewrites that name to
\* _<Class>__add_to_doc, which nothing defines: the call raises NameError
\* after the object was added, before its shape and placement are set.
AddToDoc(d, shape, translation, rotation) ==
    [exc |-> "NameError",
     doc |-> [d EXCEPT !.features =
                 Append(@, [label |-> <<shape.cls, shape.name>>, placed |-> FALSE,
                            translation |-> <<0, 0, 0>>, rotation |-> <<0, 0, 0>>])]]

\* The file generate_freecad_file writes to: the argument, or a temporary
\* file's name when the argument is None.
OutputPath(arg) == IF arg = << >> THEN "tmp.fcstd" ELSE arg[1]

(***************************************************************************)
(* The inference specification.  A run is either run_text_to_cad.py from    *)
(* the model's raw output on, or a direct call of generate_freecad_file     *)
(* with a list of objects.                                                  *)
(***************************************************************************)
\* len(Parameters.to_list()), the model's output dimension.
VectorLen == Len(Fields) + 1

\* The raw outputs of the model: the first element in -MaxFirst..MaxFirst; the
\* others either each -MaxRaw or MaxRaw, or one value followed by zeros.
RawOutputs ==
    { <<first>> \o rest :
        first \in (-MaxFirst)..MaxFirst,
        rest \in [1..(VectorLen - 1) -> {-MaxRaw, MaxRaw}]
                 \cup { [k \in 1..(VectorLen - 1) |-> IF k = 1 THEN v ELSE 0] :
                          v \in {-MaxRaw, 0, MaxRaw} } }

\* pose_prediction_vector = [0] * 6
ZeroPose == <<0, 0, 0, 0, 0, 0>>

\* The objects of a direct call: one of every kind, built as the example
\* script builds them, with a Parameters instance whose fields are all 1.
DirectObjects ==
    { Object3D(m, "Parameters",
               NewParameters(m, [f \in FieldNames |-> 1]),
               <<0, 2, 2>>, <<0, 0, 0>>) : m \in Members }

DirectObjectLists == UNION {[1..n -> DirectObjects] : n \in 0..MaxObjects}

OutputFileArgs == {<< >>, <<"example_freecad_shape.fcstd">>}

\* The artifacts run_text_to_cad.py needs, each in a file of its own.
ArtifactKinds == {"model", "vectorizer", "config"}

\* A mutation of CheckArtifacts: the config file is not asserted to exist.
CheckArtifactsButConfig ==
    /\ ipc = "start"
    /\ IF {"model", "vectorizer"} \subseteq artifacts[1]
       THEN ipc' = "load" /\ iexc' = iexc
       ELSE ipc' = "aborted" /\ iexc' = "AssertionError"
    /\ UNCHANGED <<artifacts, loaded_artifacts, raw_output, shape_prediction_params, objects,
                   output_file, doc, obj_count, result>>

\* The three assertions that the model, vectorizer and config files exist.
CheckArtifacts ==
    /\ ipc = "start"
    /\ IF ArtifactKinds \subseteq artifacts[1]
       THEN ipc' = "load" /\ iexc' = iexc
       ELSE ipc' = "aborted" /\ iexc' = "AssertionError"
    /\ UNCHANGED <<artifacts, loaded_artifacts, raw_output, shape_prediction_params, objects,
                   output_file, doc, obj_count, result>>

\* The config is read, the model built and its state loaded, the vectorizer
\* unpickled; opening a file that does not exist raises FileNotFoundError.
LoadArtifacts ==
    /\ ipc = "load"
    /\ IF ArtifactKinds \subseteq artifacts[1]
       THEN /\ loaded_artifacts' = ArtifactKinds
            /\ ipc' = "predict"
            /\ iexc' = iexc
       ELSE /\ loaded_artifacts' = IF "config" \notin artifacts[1] THEN {}
                                   ELSE IF "model" \notin artifacts[1] THEN {"config"}
                                   ELSE {"config", "model"}
            /\ ipc' = "aborted"
            /\ iexc' = "FileNotFoundError"
    /\ UNCHANGED <<artifacts, raw_output, shape_prediction_params, objects,
                   output_file, doc, obj_count, result>>

\* shape_prediction_params = predict(model, text, vectorizer, device)[0]
Predict ==
    /\ ipc = "predict"
    /\ shape_prediction_params' = <<AbsPrediction(raw_output)>>
    /\ ipc' = "decode"
    /\ UNCHANGED <<artifacts, loaded_artifacts, raw_output, objects, output_file, doc, obj_count, iexc, result>>

\* objects=[from_model_output_to_object(shape_prediction_params, pose)]
Decode ==
    /\ ipc = "decode"
    /\ LET r == FromModelOutputToObject(shape_prediction_params[1], ZeroPose) IN
         IF r.exc = "none"
         THEN /\ objects' = <<r.value[1]>>
              /\ ipc' = "generate"
              /\ iexc' = iexc
         ELSE /\ objects' = objects
              /\ ipc' = "aborted"
              /\ iexc' = r.exc
    /\ UNCHANGED <<artifacts, loaded_artifacts, raw_output, shape_prediction_params, output_file, doc, obj_count, result>>

\* generate_freecad_file, up to the loop: the output path and the new document.
NewDocument ==
    /\ ipc = "generate"
    /\ output_file' = <<OutputPath(output_file)>>
    /\ doc' = <<[open |-> TRUE, features |-> << >>, save |-> "none"]>>
    /\ obj_count' = 0
    /\ ipc' = "loop"
    /\ UNCHANGED <<artifacts, loaded_artifacts, raw_output, shape_prediction_params, objects, iexc, result>>

\* One iteration of the loop over objects.
AddObject ==
    /\ ipc = "loop"
    /\ obj_count < Len(objects)
    /\ obj_count' = obj_count + 1
    /\ LET obj == objects[obj_count + 1]
           made == InstantiateFromString(StrOfMember(obj.name), obj_count + 1, obj.parameters)
       IN IF made.exc # "none"
          THEN /\ iexc' = made.exc
               /\ ipc' = "aborted"
               /\ doc' = doc
          ELSE LET added == AddToDoc(doc[1], made.value[1], PlacedTranslation, PlacedRotation) IN
               /\ doc' = <<added.doc>>
               /\ iexc' = added.exc
               /\ ipc' = IF added.exc = "none" THEN "loop" ELSE "aborted"
    /\ UNCHANGED <<artifacts, loaded_artifacts, raw_output, shape_prediction_params, objects, output_file, result>>

\* A mutation of SaveDocument: the document is saved and not closed.
SaveDocumentLeftOpen ==
    /\ ipc = "loop"
    /\ obj_count = Len(objects)
    /\ doc' = <<[doc[1] EXCEPT !.save = "saved"]>>
    /\ ipc' = "return"
    /\ UNCHANGED <<artifacts, loaded_artifacts, raw_output, shape_prediction_params, objects, output_file, obj_count, iexc, result>>

\* doc.saveAs(output_file) succeeds: the success is logged and the document closed.
SaveDocument ==
    /\ ipc = "loop"
    /\ obj_count = Len(objects)
    /\ doc' = <<[doc[1] EXCEPT !.save = "saved", !.open = FALSE]>>
    /\ ipc' = "return"
    /\ UNCHANGED <<artifacts, loaded_artifacts, raw_output, shape_prediction_params, objects, output_file, obj_count, iexc, result>>

\* A mutation of SaveFails: the exception of doc.saveAs leaves the function.
SaveFailsRaising ==
    /\ ipc = "loop"
    /\ obj_count = Len(objects)
    /\ doc' = <<[doc[1] EXCEPT !.save = "failed"]>>
    /\ iexc' = "Exception"
    /\ ipc' = "aborted"
    /\ UNCHANGED <<artifacts, loaded_artifacts, raw_output, shape_prediction_params, objects, output_file, obj_count, result>>

\* doc.saveAs(output_file) raises: the error is logged, the document stays open.
SaveFails ==
    /\ ipc = "loop"
    /\ obj_count = Len(objects)
    /\ doc' = <<[doc[1] EXCEPT !.save = "failed"]>>
    /\ ipc' = "return"
    /\ UNCHANGED <<artifacts, loaded_artifacts, raw_output, shape_prediction_params, objects, output_file, obj_count, iexc, result>>

\* return output_file
ReturnOutputFile ==
    /\ ipc = "return"
    /\ result' = output_file
    /\ ipc' = "launch"
    /\ UNCHANGED <<artifacts, loaded_artifacts, raw_output, shape_prediction_params, objects, output_file, doc, obj_count, iexc>>

\* subprocess.run(["freecad", file], check=True)
LaunchFreecad ==
    /\ ipc = "launch"
    /\ \E status \in {"none", "CalledProcessError"} :
         /\ iexc' = status
         /\ ipc' = IF status = "none" THEN "done" ELSE "aborted"
    /\ UNCHANGED <<artifacts, loaded_artifacts, raw_output, shape_prediction_params, objects, output_file, doc, obj_count, result>>

InitInfer ==
    /\ \/ /\ ipc = "start"
          /\ artifacts \in {<<S>> : S \in SUBSET ArtifactKinds}
          /\ raw_output \in IF artifacts[1] = ArtifactKinds THEN RawOutputs ELSE {<< >>}
          /\ objects = << >>
          /\ output_file = <<"output.fcstd">>
       \/ /\ ipc = "generate"
          /\ artifacts = << >>
          /\ raw_output = << >>
          /\ objects \in DirectObjectLists
          /\ output_file \in OutputFileArgs
    /\ loaded_artifacts = {}
    /\ shape_prediction_params = << >>
    /\ doc = << >>
    /\ obj_count = 0
    /\ iexc = "none"
    /\ result = << >>
    /\ SchemaIdle
    /\ TextIdle
    /\ TrainIdle
    /\ GenIdle
    /\ PassIdle
    /\ PipeIdle

NextInfer ==
    \/ CheckArtifacts /\ UNCHANGED <<schemaVars, textVars, trainVars, genVars, passVars, pipeVars>>
    \/ LoadArtifacts /\ UNCHANGED <<schemaVars, textVars, trainVars, genVars, passVars, pipeVars>>
    \/ Predict /\ UNCHANGED <<schemaVars, textVars, trainVars, genVars, passVars, pipeVars>>
    \/ Decode /\ UNCHANGED <<schemaVars, textVars, trainVars, genVars, passVars, pipeVars>>
    \/ NewDocument /\ UNCHANGED <<schemaVars, textVars, trainVars, genVars, passVars, pipeVars>>
    \/ AddObject /\ UNCHANGED <<schemaVars, textVars, trainVars, genVars, passVars, pipeVars>>
    \/ SaveDocument /\ UNCHANGED <<schemaVars, textVars, trainVars, genVars, passVars, pipeVars>>
    \/ SaveFails /\ UNCHANGED <<schemaVars, textVars, trainVars, genVars, passVars, pipeVars>>
    \/ ReturnOutputFile /\ UNCHANGED <<schemaVars, textVars, trainVars, genVars, passVars, pipeVars>>
    \/ LaunchFreecad /\ UNCHANGED <<schemaVars, textVars, trainVars, genVars, passVars, pipeVars>>

SpecInfer == InitInfer /\ [][NextInfer]_vars

(***************************************************************************)
(* Claims about the inference path, checked under SpecInfer.               *)
(***************************************************************************)
\* The run is run_text_to_cad.py and the decode has returned an object.
Decoded == raw_output # << >> /\ objects # << >>

\* C7, first part: the decoded object's name is the kind whose value is the
\* prediction's first element, and its parameters are the other 8 elements
\* of the prediction in their order.
C7_NameAndParameters ==
    Decoded =>
        /\ objects[1].name \in Members
        /\ EnumValue(objects[1].name) = shape_prediction_params[1][1]
        /\ Len(objects[1].parameters.value) = 8
        /\ \A k \in 1..8 :
              objects[1].parameters.value[k] = shape_prediction_params[1][k + 1]

\* C7, second part: the prediction is the raw output with every element
\* replaced by its absolute value, so that no decoded entry is negative.
C7_AbsBeforeDecode ==
    /\ shape_prediction_params # << >> =>
          /\ Len(shape_prediction_params[1]) = Len(raw_output)
          /\ \A k \in 1..Len(raw_output) :
                /\ shape_prediction_params[1][k] >= 0
                /\ shape_prediction_params[1][k] \in {raw_output[k], -raw_output[k]}
    /\ Decoded => \A k \in 1..8 : objects[1].parameters.value[k] >= 0

\* C7, the decode returns: once the decode step is over, a prediction whose
\* first element is the value of a kind has given an object.
C7_ValidValueDecodes ==
    (raw_output # << >> /\ ipc \notin {"start", "load", "predict", "decode"}
       /\ \E m \in Members : EnumValue(m) \in {raw_output[1], -raw_output[1]})
    => objects # << >>

\* C7: from_model_output_to_object applied to a prediction whose first element
\* is the value of a supported kind returns an object named by that kind whose
\* parameters are the remaining 8 elements in order; predict applies abs()
\* element-wise before the decode, so no decoded entry is negative.
C7_Decode == C7_NameAndParameters /\ C7_AbsBeforeDecode /\ C7_ValidValueDecodes

\* A raw output [5, negative, ...] has been decoded to a SPHERE with a
\* positive first parameter.
C7_Witness ==
    /\ Decoded
    /\ raw_output[1] = 5
    /\ raw_output[2] < 0
    /\ objects[1].name = "SPHERE"
    /\ objects[1].parameters.value[1] > 0

\* C8: on the inference path the decoded object carries a Parameters record
\* and the run does not fail between the decode and the attempt to save the
\* document.
C8_DecodeReachesSave ==
    Decoded =>
        /\ objects[1].parameters.kind = "Parameters"
        /\ ipc = "aborted" => (doc # << >> /\ doc[1].save # "none")


(***************************************************************************)
(* The training driver (train_model.py) with the scikit-learn and torch    *)
(* calls it makes: train_test_split, CountVectorizer, load_state_dict, and *)
(* train and evaluate of common.py.                                        *)
(***************************************************************************)
\* split_string: input.split(), the maximal runs of non-blank characters.
RECURSIVE SplitFrom(_, _, _)
SplitFrom(s, i, token) ==
    IF i > Len(s) THEN (IF token = << >> THEN << >> ELSE <<token>>)
    ELSE IF s[i] = " "
         THEN (IF token = << >> THEN << >> ELSE <<token>>) \o SplitFrom(s, i + 1, << >>)
         ELSE SplitFrom(s, i + 1, Append(token, s[i]))

SplitString(input) == SplitFrom(input, 1, << >>)

\* CountVectorizer(tokenizer=split_string, lowercase=True): the tokens of a document.
Analyze(document) == SplitString(Lower(document))

\* The vocabulary CountVectorizer learns from documents.
LearnVocabulary(documents) ==
    UNION {Range(Analyze(documents[k])) : k \in 1..Len(documents)}

\* CountVectorizer.fit / fit_transform on a vectorizer built without a
\* vocabulary argument: the vocabulary is learned from the documents,
\* whatever the vectorizer held before; an empty vocabulary raises ValueError.
Fit(vec, documents) ==
    IF LearnVocabulary(documents) = {} THEN Raised("ValueError")
    ELSE Returned([vec EXCEPT !.vocabulary = LearnVocabulary(documents)])

\* CountVectorizer.transform: one row per document, with the number of
\* occurrences of every word of the vocabulary.
Transform(vec, documents) ==
    [k \in 1..Len(documents) |->
        LET tokens == Analyze(documents[k]) IN
        [t \in vec.vocabulary |-> Cardinality({j \in 1..Len(tokens) : tokens[j] = t})]]

\* train_test_split(df, test_size=0.2): ceil(0.2 * n) rows for the test set.
TestSize(n) == (n + 4) \div 5

\* The rows of s at the positions in keep, in their order.
RECURSIVE SelectRows(_, _, _)
SelectRows(s, keep, i) ==
    IF i > Len(s) THEN << >>
    ELSE (IF i \in keep THEN <<s[i]>> ELSE << >>) \o SelectRows(s, keep, i + 1)

\* A mutation of NumBatches: the last, partial batch is counted.
NumBatchesWithPartial(n, batch_size) == (n + batch_size - 1) \div batch_size

\* len(X) // batch_size of train and evaluate.
NumBatches(n, batch_size) == n \div batch_size

\* train / evaluate: the average loss is epoch_loss / num_batches.
AverageLoss(n, batch_size) ==
    IF NumBatches(n, batch_size) = 0 THEN Raised("ZeroDivisionError")
    ELSE Returned(NumBatches(n, batch_size))

\* CADParameterPredictor(input_dim, hidden_dim, output_dim)
CADParameterPredictor(input_dim, hidden_dim, output_dim) ==
    [input_dim |-> input_dim, hidden_dim |-> hidden_dim, output_dim |-> output_dim,
     weights |-> "initial", epochs |-> 0]

\* model.load_state_dict(state): the layers must have the saved shapes.
LoadStateDict(net, state) ==
    IF /\ net.input_dim = state.input_dim
       /\ net.hidden_dim = state.hidden_dim
       /\ net.output_dim = state.output_dim
    THEN Returned([net EXCEPT !.weights = "loaded"])
    ELSE Raised("RuntimeError")

\* The files of an earlier run of the driver whose training split had the
\* vocabulary v, or no files for v = {}.
FilesOfEarlierRun(v) ==
    IF v = {} THEN [vectorizer |-> << >>, model |-> << >>, config |-> << >>]
    ELSE [vectorizer |-> <<[vocabulary |-> v]>>,
          model |-> <<[input_dim |-> Cardinality(v), hidden_dim |-> HiddenDimension,
                       output_dim |-> VectorLen]>>,
          config |-> <<[input_dim |-> Cardinality(v), hidden_dim |-> HiddenDimension,
                        output_dim |-> VectorLen]>>]

(***************************************************************************)
(* The training specification: one run of train_model.py over a datasets   *)
(* directory, with or without the files of an earlier run.                 *)
(***************************************************************************)
\* A dataset entry with its description.
Described(e, text) ==
    [shape |-> e.shape, cad_parameters |-> e.cad_parameters, description |-> text]

\* The entries the datasets are made of: generator entries, a "box" entry
\* and an entry whose description has no keyword and no number.
EntryPool ==
    <<       \* "A sphere with a radius of 5.00 units."
       Described(GeneratorEntry("sphere", [radius |-> 50]),
                 <<"A", " ", "s", "p", "h", "e", "r", "e", " ", "w", "i", "t", "h", " ", "a", " ", "r", "a", "d", "i", "u", "s", " ", "o", "f", " ", "5", ".", "0", "0", " ", "u", "n", "i", "t", "s", ".">>),
       \* "A small sphere with a diameter."
       Described(GeneratorEntry("sphere", [radius |-> 70]),
                 <<"A", " ", "s", "m", "a", "l", "l", " ", "s", "p", "h", "e", "r", "e", " ", "w", "i", "t", "h", " ", "a", " ", "d", "i", "a", "m", "e", "t", "e", "r", ".">>),
       \* "A cone 12.50 units tall"
       Described(GeneratorEntry("cone", [radius1 |-> 30, radius2 |-> 10, height |-> 125]),
                 <<"A", " ", "c", "o", "n", "e", " ", "1", "2", ".", "5", "0", " ", "u", "n", "i", "t", "s", " ", "t", "a", "l", "l">>),
       \* "A box."
       Described(GeneratorEntry("box", [length |-> 10, width |-> 20, height |-> 30]),
                 <<"A", " ", "b", "o", "x", ".">>),
       \* "A ring"
       Described([shape |-> "circle", cad_parameters |-> <<12, 0, 0, 0, 10, 0, 0, 0, 0>>],
                 <<"A", " ", "r", "i", "n", "g">>) >>

\* The datasets: at most MaxEntries entries of the pool, in the pool's order
\* (the split below does not depend on the order of the files' entries).
Datasets ==
    { [k \in 1..Len(f) |-> EntryPool[f[k]]] :
        f \in { g \in UNION {[1..n -> 1..Len(EntryPool)] : n \in 0..MaxEntries} :
                  \A i \in 1..Len(g) : \A j \in (i + 1)..Len(g) : g[i] <= g[j] } }

\* The processed descriptions an earlier run may have trained on.
EarlierDocuments ==
    {
      \* "sphere radius units 2.0"
      <<"s", "p", "h", "e", "r", "e", " ", "r", "a", "d", "i", "u", "s", " ", "u", "n", "i", "t", "s", " ", "2", ".", "0">>,
      \* "helix pitch 4.0"
      <<"h", "e", "l", "i", "x", " ", "p", "i", "t", "c", "h", " ", "4", ".", "0">> }

\* The vocabulary of an earlier run's vectorizer file; {} when there was no run.
EarlierVocabularies == {{}} \cup {LearnVocabulary(<<d>>) : d \in EarlierDocuments}

BatchSizes == {1, 2}

EpochCounts == {1, 2}

\* The driver up to the end of dataset loading: the directory must exist and
\* the entries loaded from its files must not be empty.
LoadDatasets ==
    /\ tpc = "load"
    /\ IF files.datasets = << >> \/ files.datasets[1] = << >>
       THEN /\ texc' = "AssertionError"
            /\ tpc' = "aborted"
            /\ dataset' = dataset
       ELSE /\ dataset' = files.datasets[1]
            /\ tpc' = "convert"
            /\ texc' = texc
    /\ UNCHANGED <<args, files, loaded, processed_dataset, train_df, test_df, vectorizer,
                   X_train, X_test, model, epoch>>

\* The first entry of the dataset whose conversion raises, or 0.
FirstFailure(entries) ==
    IF \A k \in 1..Len(entries) : ConvertOne(entries[k]).exc = "none" THEN 0
    ELSE Least({k \in 1..Len(entries) : ConvertOne(entries[k]).exc # "none"})

\* The conversion loop: every entry's cad_parameters decoded and re-encoded.
ConvertDataset ==
    /\ tpc = "convert"
    /\ IF FirstFailure(dataset) # 0
       THEN /\ texc' = ConvertOne(dataset[FirstFailure(dataset)]).exc
            /\ tpc' = "aborted"
            /\ processed_dataset' =
                 [k \in 1..(FirstFailure(dataset) - 1) |->
                     [dataset[k] EXCEPT !.cad_parameters = ConvertOne(dataset[k]).cad_parameters]]
       ELSE /\ processed_dataset' =
                 [k \in 1..Len(dataset) |->
                     [dataset[k] EXCEPT !.cad_parameters = ConvertOne(dataset[k]).cad_parameters]]
            /\ tpc' = "split"
            /\ texc' = texc
    /\ UNCHANGED <<args, files, loaded, dataset, train_df, test_df, vectorizer,
                   X_train, X_test, model, epoch>>

\* train_test_split: a random choice of the test rows; it raises ValueError
\* when no row is left for the training set.
SplitDataset ==
    /\ tpc = "split"
    /\ LET n == Len(processed_dataset) IN
       IF n - TestSize(n) = 0
       THEN /\ texc' = "ValueError"
            /\ tpc' = "aborted"
            /\ UNCHANGED <<train_df, test_df>>
       ELSE /\ \E test \in {T \in SUBSET (1..n) : Cardinality(T) = TestSize(n)} :
                 /\ test_df' = SelectRows(processed_dataset, test, 1)
                 /\ train_df' = SelectRows(processed_dataset, (1..n) \ test, 1)
            /\ tpc' = "preprocess"
            /\ texc' = texc
    /\ UNCHANGED <<args, files, loaded, dataset, processed_dataset, vectorizer,
                   X_train, X_test, model, epoch>>

\* preprocess_description on the descriptions of the pool's entries.
ProcessedDescription ==
    [text \in {EntryPool[k].description : k \in 1..Len(EntryPool)} |->
        PreprocessDescription(text)]

\* df["description"].apply(preprocess_description): the rows with their
\* processed description, or the exception of the first row that raises.
ProcessRows(rows) ==
    IF \E k \in 1..Len(rows) : ProcessedDescription[rows[k].description].exc # "none"
    THEN Raised("ValueError")
    ELSE Returned([k \in 1..Len(rows) |->
                     [shape |-> rows[k].shape,
                      cad_parameters |-> rows[k].cad_parameters,
                      description |-> rows[k].description,
                      processed_description |->
                          ProcessedDescription[rows[k].description].value[1]]])

PreprocessSplits ==
    /\ tpc = "preprocess"
    /\ IF ProcessRows(train_df).exc # "none" \/ ProcessRows(test_df).exc # "none"
       THEN /\ texc' = "ValueError"
            /\ tpc' = "aborted"
            /\ UNCHANGED <<train_df, test_df>>
       ELSE /\ train_df' = ProcessRows(train_df).value[1]
            /\ test_df' = ProcessRows(test_df).value[1]
            /\ tpc' = "vectorizer"
            /\ texc' = texc
    /\ UNCHANGED <<args, files, loaded, dataset, processed_dataset, vectorizer,
                   X_train, X_test, model, epoch>>

\* The processed descriptions of a split.
Documents(rows) == [k \in 1..Len(rows) |-> rows[k].processed_description]

\* The vectorizer: loaded from the file when --retrain is given and the file
\* exists, else a new one fitted on the training documents.
MakeVectorizer ==
    /\ tpc = "vectorizer"
    /\ IF args.retrain /\ files.vectorizer # << >>
       THEN /\ vectorizer' = files.vectorizer
            /\ loaded' = [loaded EXCEPT !.vectorizer = files.vectorizer]
            /\ tpc' = "vectorize"
            /\ texc' = texc
       ELSE LET r == Fit([vocabulary |-> {}], Documents(train_df)) IN
            /\ vectorizer' = r.value
            /\ loaded' = loaded
            /\ tpc' = IF r.exc = "none" THEN "vectorize" ELSE "aborted"
            /\ texc' = IF r.exc = "none" THEN texc ELSE r.exc
    /\ UNCHANGED <<args, files, dataset, processed_dataset, train_df, test_df,
                   X_train, X_test, model, epoch>>

\* X_train = vectorizer.fit_transform(train); X_test = vectorizer.transform(test)
Vectorize ==
    /\ tpc = "vectorize"
    /\ LET r == Fit(vectorizer[1], Documents(train_df)) IN
       IF r.exc # "none"
       THEN /\ texc' = r.exc
            /\ tpc' = "aborted"
            /\ UNCHANGED <<vectorizer, X_train, X_test>>
       ELSE /\ vectorizer' = r.value
            /\ X_train' = Transform(r.value[1], Documents(train_df))
            /\ X_test' = Transform(r.value[1], Documents(test_df))
            /\ tpc' = "save_vectorizer"
            /\ texc' = texc
    /\ UNCHANGED <<args, files, loaded, dataset, processed_dataset, train_df, test_df,
                   model, epoch>>

\* pickle.dump(vectorizer, f)
SaveVectorizer ==
    /\ tpc = "save_vectorizer"
    /\ files' = [files EXCEPT !.vectorizer = vectorizer]
    /\ tpc' = "build"
    /\ UNCHANGED <<args, loaded, dataset, processed_dataset, train_df, test_df, vectorizer,
                   X_train, X_test, model, epoch, texc>>

\* The model is built with the dimensions of the data; with --retrain and an
\* existing model file its state is loaded.
BuildModel ==
    /\ tpc = "build"
    /\ LET fresh == CADParameterPredictor(Cardinality(DOMAIN X_train[1]),
                                          args.hidden_dimension,
                                          Len(train_df[1].cad_parameters))
       IN IF args.retrain /\ files.model # << >>
          THEN LET r == LoadStateDict(fresh, files.model[1]) IN
               /\ model' = IF r.exc = "none" THEN r.value ELSE <<fresh>>
               /\ loaded' = [loaded EXCEPT !.model = files.model]
               /\ tpc' = IF r.exc = "none" THEN "epochs" ELSE "aborted"
               /\ texc' = IF r.exc = "none" THEN texc ELSE r.exc
          ELSE /\ model' = <<fresh>>
               /\ loaded' = loaded
               /\ tpc' = "epochs"
               /\ texc' = texc
    /\ epoch' = 0
    /\ UNCHANGED <<args, files, dataset, processed_dataset, train_df, test_df, vectorizer,
                   X_train, X_test>>

\* One epoch: train(...) then evaluate(...).
TrainEpoch ==
    /\ tpc = "epochs"
    /\ epoch < args.num_epochs
    /\ IF AverageLoss(Len(X_train), args.batch_size).exc # "none"
       THEN /\ texc' = "ZeroDivisionError"
            /\ tpc' = "aborted"
            /\ UNCHANGED <<model, epoch>>
       ELSE /\ model' = <<[model[1] EXCEPT !.weights = "trained", !.epochs = @ + 1]>>
            /\ IF AverageLoss(Len(X_test), args.batch_size).exc # "none"
               THEN /\ texc' = "ZeroDivisionError"
                    /\ tpc' = "aborted"
                    /\ epoch' = epoch
               ELSE /\ epoch' = epoch + 1
                    /\ UNCHANGED <<texc, tpc>>
    /\ UNCHANGED <<args, files, loaded, dataset, processed_dataset, train_df, test_df,
                   vectorizer, X_train, X_test>>

\* A mutation of SaveConfig: input_dim is the number of rows of X_train.
SaveConfigOfRows ==
    /\ tpc = "epochs"
    /\ epoch = args.num_epochs
    /\ files' = [files EXCEPT !.config =
                    <<[input_dim |-> Len(X_train),
                       hidden_dim |-> model[1].hidden_dim,
                       output_dim |-> model[1].output_dim]>>]
    /\ tpc' = "save_model"
    /\ UNCHANGED <<args, loaded, dataset, processed_dataset, train_df, test_df, vectorizer,
                   X_train, X_test, model, epoch, texc>>

\* yaml.dump of the model's dimensions to the config file.
SaveConfig ==
    /\ tpc = "epochs"
    /\ epoch = args.num_epochs
    /\ files' = [files EXCEPT !.config =
                    <<[input_dim |-> model[1].input_dim,
                       hidden_dim |-> model[1].hidden_dim,
                       output_dim |-> model[1].output_dim]>>]
    /\ tpc' = "save_model"
    /\ UNCHANGED <<args, loaded, dataset, processed_dataset, train_df, test_df, vectorizer,
                   X_train, X_test, model, epoch, texc>>

\* torch.save(model.state_dict(), model_file)
SaveModel ==
    /\ tpc = "save_model"
    /\ files' = [files EXCEPT !.model =
                    <<[input_dim |-> model[1].input_dim,
                       hidden_dim |-> model[1].hidden_dim,
                       output_dim |-> model[1].output_dim]>>]
    /\ tpc' = "done"
    /\ UNCHANGED <<args, loaded, dataset, processed_dataset, train_df, test_df, vectorizer,
                   X_train, X_test, model, epoch, texc>>

InitTrain ==
    /\ tpc = "load"
    /\ args \in [retrain : BOOLEAN, batch_size : BatchSizes, num_epochs : EpochCounts,
                 hidden_dimension : {HiddenDimension}]
    /\ \E d \in {<< >>} \cup {<<ds>> : ds \in Datasets}, v \in EarlierVocabularies :
         files = [datasets |-> d,
                  vectorizer |-> FilesOfEarlierRun(v).vectorizer,
                  model |-> FilesOfEarlierRun(v).model,
                  config |-> FilesOfEarlierRun(v).config]
    /\ loaded = [vectorizer |-> << >>, model |-> << >>]
    /\ dataset = << >>
    /\ processed_dataset = << >>
    /\ train_df = << >>
    /\ test_df = << >>
    /\ vectorizer = << >>
    /\ X_train = << >>
    /\ X_test = << >>
    /\ model = << >>
    /\ epoch = 0
    /\ texc = "none"
    /\ SchemaIdle
    /\ TextIdle
    /\ InferIdle
    /\ GenIdle
    /\ PassIdle
    /\ PipeIdle

NextTrain ==
    \/ LoadDatasets /\ UNCHANGED <<schemaVars, textVars, inferVars, genVars, passVars, pipeVars>>
    \/ ConvertDataset /\ UNCHANGED <<schemaVars, textVars, inferVars, genVars, passVars, pipeVars>>
    \/ SplitDataset /\ UNCHANGED <<schemaVars, textVars, inferVars, genVars, passVars, pipeVars>>
    \/ PreprocessSplits /\ UNCHANGED <<schemaVars, textVars, inferVars, genVars, passVars, pipeVars>>
    \/ MakeVectorizer /\ UNCHANGED <<schemaVars, textVars, inferVars, genVars, passVars, pipeVars>>
    \/ Vectorize /\ UNCHANGED <<schemaVars, textVars, inferVars, genVars, passVars, pipeVars>>
    \/ SaveVectorizer /\ UNCHANGED <<schemaVars, textVars, inferVars, genVars, passVars, pipeVars>>
    \/ BuildModel /\ UNCHANGED <<schemaVars, textVars, inferVars, genVars, passVars, pipeVars>>
    \/ TrainEpoch /\ UNCHANGED <<schemaVars, textVars, inferVars, genVars, passVars, pipeVars>>
    \/ SaveConfig /\ UNCHANGED <<schemaVars, textVars, inferVars, genVars, passVars, pipeVars>>
    \/ SaveModel /\ UNCHANGED <<schemaVars, textVars, inferVars, genVars, passVars, pipeVars>>

SpecTrain == InitTrain /\ [][NextTrain]_vars

(***************************************************************************)
(* The two drivers together: a run is either one of train_model.py or one  *)
(* of the inference path.                                                  *)
(***************************************************************************)
InitDrivers == InitTrain \/ InitInfer

NextDrivers == NextTrain \/ NextInfer

SpecDrivers == InitDrivers /\ [][NextDrivers]_vars

(***************************************************************************)
(* Claims about the training driver, checked under SpecTrain.              *)
(***************************************************************************)
\* C10: with --retrain and an existing vectorizer file the run reuses the
\* loaded vectorizer, so that the vocabulary the data is vectorized with and
\* the vocabulary written back to the file contain the loaded vocabulary;
\* without --retrain no vectorizer and no model is loaded.
C10_RetrainReusesVectorizer ==
    /\ (args.retrain /\ loaded.vectorizer # << >> /\ X_train # << >>) =>
          loaded.vectorizer[1].vocabulary \subseteq DOMAIN X_train[1]
    /\ (args.retrain /\ loaded.vectorizer # << >>
          /\ tpc \in {"build", "epochs", "save_model", "done"}) =>
          loaded.vectorizer[1].vocabulary \subseteq files.vectorizer[1].vocabulary
    /\ ~args.retrain => (loaded.vectorizer = << >> /\ loaded.model = << >>)


\* C11: a training run writes no artifact file (vectorizer, config, model)
\* before the last of its --num-epochs epochs (train then evaluate) is over.
C11_NoArtifactBeforeLastEpoch ==
    [][ (files' # files) =>
          (tpc \in {"epochs", "save_model"} /\ epoch = args.num_epochs) ]_vars


\* C12: when doc.saveAs fails in generate_freecad_file the exception does not
\* leave the function, and the function returns the output path, the value it
\* also returns when the save succeeds.
C12_SaveFailureReturnsPath ==
    /\ (doc # << >> /\ doc[1].save = "failed") =>
          /\ ipc \in {"return", "launch", "done", "aborted"}
          /\ ipc \in {"launch", "done", "aborted"} => result # << >>
    /\ result # << >> =>
          /\ doc # << >> /\ doc[1].save \in {"saved", "failed"}
          /\ result = output_file

\* A run whose save failed has returned the output path.
C12_Witness ==
    /\ doc # << >>
    /\ doc[1].save = "failed"
    /\ result # << >>
    /\ result = output_file


\* C13: every object generate_freecad_file has added to the document is
\* placed with the translation and the rotation of its own Object3D.
C13_PlacedWithOwnPose ==
    doc # << >> =>
        \A k \in 1..Len(doc[1].features) :
            /\ doc[1].features[k].placed
            /\ doc[1].features[k].translation = objects[k].translation
            /\ doc[1].features[k].rotation = objects[k].rotation


(***************************************************************************)
(* Claims about both drivers, checked under SpecDrivers.                   *)
(***************************************************************************)
\* The datasets directory does not exist, or its files hold no entry.
NoDataset == files.datasets = << >> \/ files.datasets[1] = << >>

\* C14, train_model: without a dataset the run is aborted by an assertion
\* with nothing fitted and nothing built.
C14_TrainAborts ==
    (tpc \notin {"idle", "load"} /\ NoDataset) =>
        /\ tpc = "aborted"
        /\ texc = "AssertionError"
        /\ dataset = << >>
        /\ vectorizer = << >>
        /\ model = << >>

\* C14, train_model: such a run writes no file.
C14_TrainWritesNothing ==
    [][ (tpc # "idle" /\ NoDataset) => files' = files ]_vars

\* C14, run_text_to_cad: when one of the three files does not exist the run
\* is aborted by an assertion with nothing loaded and nothing generated.
C14_InferAborts ==
    (artifacts # << >> /\ artifacts[1] # ArtifactKinds /\ ipc # "start") =>
        /\ ipc = "aborted"
        /\ iexc = "AssertionError"
        /\ loaded_artifacts = {}
        /\ shape_prediction_params = << >>
        /\ objects = << >>
        /\ doc = << >>
        /\ result = << >>

\* C14: both drivers fail fast on a violated precondition: train_model by
\* assertion before any file is written when the dataset directory is missing
\* or the dataset is empty, run_text_to_cad by assertion before anything is
\* loaded or generated when the model, vectorizer or config file is missing.
C14_FailFast == []C14_TrainAborts /\ C14_TrainWritesNothing /\ []C14_InferAborts

\* run_text_to_cad was aborted by the assertion on the config file alone.
C14_Witness ==
    /\ ipc = "aborted"
    /\ iexc = "AssertionError"
    /\ artifacts = <<{"model", "vectorizer"}>>


(***************************************************************************)
(* The dataset generators (training_data_generation/scripts/generate_*.py):*)
(* each script loops --num-datapoints times, draws a size, the parameters  *)
(* and the terms, writes a qualitative or a quantitative description and   *)
(* appends a record; after the loop it dumps the list into one file.       *)
(***************************************************************************)
\* The characters of the strings the descriptions are put together from.
Chars(s) ==
    CASE s = "A " -> <<"A", " ">>
      [] s = " plane with a " -> <<" ", "p", "l", "a", "n", "e", " ", "w", "i", "t", "h", " ", "a", " ">>
      [] s = " and " -> <<" ", "a", "n", "d", " ">>
      [] s = "." -> <<".">>
      [] s = " " -> <<" ">>
      [] s = " with a " -> <<" ", "w", "i", "t", "h", " ", "a", " ">>
      [] s = ", " -> <<",", " ">>
      [] s = ", and " -> <<",", " ", "a", "n", "d", " ">>
      [] s = " cylinder with a " -> <<" ", "c", "y", "l", "i", "n", "d", "e", "r", " ", "w", "i", "t", "h", " ", "a", " ">>
      [] s = " cone with a " -> <<" ", "c", "o", "n", "e", " ", "w", "i", "t", "h", " ", "a", " ">>
      [] s = " sphere with a " -> <<" ", "s", "p", "h", "e", "r", "e", " ", "w", "i", "t", "h", " ", "a", " ">>
      [] s = " torus with a " -> <<" ", "t", "o", "r", "u", "s", " ", "w", "i", "t", "h", " ", "a", " ">>
      [] s = " and a " -> <<" ", "a", "n", "d", " ", "a", " ">>
      [] s = " helix with a " -> <<" ", "h", "e", "l", "i", "x", " ", "w", "i", "t", "h", " ", "a", " ">>
      [] s = "A plane with a " -> <<"A", " ", "p", "l", "a", "n", "e", " ", "w", "i", "t", "h", " ", "a", " ">>
      [] s = " of " -> <<" ", "o", "f", " ">>
      [] s = " units and " -> <<" ", "u", "n", "i", "t", "s", " ", "a", "n", "d", " ">>
      [] s = " units." -> <<" ", "u", "n", "i", "t", "s", ".">>
      [] s = "A box with a " -> <<"A", " ", "b", "o", "x", " ", "w", "i", "t", "h", " ", "a", " ">>
      [] s = " units, a " -> <<" ", "u", "n", "i", "t", "s", ",", " ", "a", " ">>
      [] s = " units, and a " -> <<" ", "u", "n", "i", "t", "s", ",", " ", "a", "n", "d", " ", "a", " ">>
      [] s = "A cube with a " -> <<"A", " ", "c", "u", "b", "e", " ", "w", "i", "t", "h", " ", "a", " ">>
      [] s = "A cylinder with a " -> <<"A", " ", "c", "y", "l", "i", "n", "d", "e", "r", " ", "w", "i", "t", "h", " ", "a", " ">>
      [] s = "A cone with a " -> <<"A", " ", "c", "o", "n", "e", " ", "w", "i", "t", "h", " ", "a", " ">>
      [] s = "A sphere with a " -> <<"A", " ", "s", "p", "h", "e", "r", "e", " ", "w", "i", "t", "h", " ", "a", " ">>
      [] s = "A torus with a " -> <<"A", " ", "t", "o", "r", "u", "s", " ", "w", "i", "t", "h", " ", "a", " ">>
      [] s = " units and a " -> <<" ", "u", "n", "i", "t", "s", " ", "a", "n", "d", " ", "a", " ">>
      [] s = "A helix with a " -> <<"A", " ", "h", "e", "l", "i", "x", " ", "w", "i", "t", "h", " ", "a", " ">>
      [] s = " units, and an " -> <<" ", "u", "n", "i", "t", "s", ",", " ", "a", "n", "d", " ", "a", "n", " ">>
      [] s = " degrees." -> <<" ", "d", "e", "g", "r", "e", "e", "s", ".">>
      [] s = "small" -> <<"s", "m", "a", "l", "l">>
      [] s = "medium" -> <<"m", "e", "d", "i", "u", "m">>
      [] s = "large" -> <<"l", "a", "r", "g", "e">>
      [] s = "box" -> <<"b", "o", "x">>
      [] s = "cube" -> <<"c", "u", "b", "e">>
      [] s = "width" -> <<"w", "i", "d", "t", "h">>
      [] s = "height" -> <<"h", "e", "i", "g", "h", "t">>
      [] s = "length" -> <<"l", "e", "n", "g", "t", "h">>
      [] s = "radius" -> <<"r", "a", "d", "i", "u", "s">>
      [] s = "diameter" -> <<"d", "i", "a", "m", "e", "t", "e", "r">>
      [] s = "tall" -> <<"t", "a", "l", "l">>
      [] s = "base radius" -> <<"b", "a", "s", "e", " ", "r", "a", "d", "i", "u", "s">>
      [] s = "base diameter" -> <<"b", "a", "s", "e", " ", "d", "i", "a", "m", "e", "t", "e", "r">>
      [] s = "top radius" -> <<"t", "o", "p", " ", "r", "a", "d", "i", "u", "s">>
      [] s = "top diameter" -> <<"t", "o", "p", " ", "d", "i", "a", "m", "e", "t", "e", "r">>
      [] s = "major radius" -> <<"m", "a", "j", "o", "r", " ", "r", "a", "d", "i", "u", "s">>
      [] s = "outer radius" -> <<"o", "u", "t", "e", "r", " ", "r", "a", "d", "i", "u", "s">>
      [] s = "minor radius" -> <<"m", "i", "n", "o", "r", " ", "r", "a", "d", "i", "u", "s">>
      [] s = "inner radius" -> <<"i", "n", "n", "e", "r", " ", "r", "a", "d", "i", "u", "s">>
      [] s = "pitch" -> <<"p", "i", "t", "c", "h">>
      [] s = "angle" -> <<"a", "n", "g", "l", "e">>

\* A mutation of Format2f: one decimal.
Format1f(v) == NatChars(v \div 10) \o <<".", DigitChars[(v % 10) + 1]>>

\* f"{value:.2f}" of a value held in tenths.
Format2f(v) == NatChars(v \div 10) \o <<".", DigitChars[(v % 10) + 1], "0">>

\* The scripts, and the shapes whose records each writes (box_and_cube draws
\* the shape of every record).
Scripts == {"plane", "box_and_cube", "cylinder", "cone", "sphere", "torus", "helix"}

ScriptShapes(script) == IF script = "box_and_cube" THEN {"box", "cube"} ELSE {script}

\* The *_terms lists of the scripts, by the Parameters field the term names:
\* every way random.choice can pick one term per list.
TermChoices(g) ==
    CASE g = "plane" ->
           {[width |-> "width", height |-> "height"]}
      [] g \in {"box", "cube"} ->
           {[length |-> "length", width |-> "width", height |-> "height"]}
      [] g = "cylinder" ->
           {[radius |-> r, height |-> h] : r \in {"radius", "diameter"}, h \in {"height", "tall"}}
      [] g = "cone" ->
           {[radius1 |-> b, radius2 |-> t, height |-> "height"] :
               b \in {"base radius", "base diameter"}, t \in {"top radius", "top diameter"}}
      [] g = "sphere" ->
           {[radius |-> r] : r \in {"radius", "diameter"}}
      [] g = "torus" ->
           {[radius1 |-> a, radius2 |-> b] :
               a \in {"major radius", "outer radius"}, b \in {"minor radius", "inner radius"}}
      [] g = "helix" ->
           {[pitch |-> "pitch", height |-> "height", radius |-> "radius", angle |-> "angle"]}

\* The terms that make create_quantitative_description double the value.
DiameterTerms == {"diameter", "base diameter", "top diameter"}

\* A mutation of Converted: a diameter term is given the radius.
ConvertedAsSampled(term, value) == value

\* if <term> == "...diameter": value = value * 2 (sphere, cylinder, cone).
Converted(term, value) == IF term \in DiameterTerms THEN value * 2 ELSE value

\* create_qualitative_description
QualitativeDescription(g, size, terms) ==
    CASE g = "plane" ->
           Concat(<<Chars("A "), Chars(size), Chars(" plane with a "), Chars(terms.width),
                    Chars(" and "), Chars(terms.height), Chars(".")>>)
      [] g \in {"box", "cube"} ->
           Concat(<<Chars("A "), Chars(size), Chars(" "), Chars(g), Chars(" with a "),
                    Chars(terms.length), Chars(", "), Chars(terms.width), Chars(", and "),
                    Chars(terms.height), Chars(".")>>)
      [] g = "cylinder" ->
           Concat(<<Chars("A "), Chars(size), Chars(" cylinder with a "), Chars(terms.radius),
                    Chars(" and "), Chars(terms.height), Chars(".")>>)
      [] g = "cone" ->
           Concat(<<Chars("A "), Chars(size), Chars(" cone with a "), Chars(terms.radius1),
                    Chars(", "), Chars(terms.radius2), Chars(", and "), Chars(terms.height),
                    Chars(".")>>)
      [] g = "sphere" ->
           Concat(<<Chars("A "), Chars(size), Chars(" sphere with a "), Chars(terms.radius),
                    Chars(".")>>)
      [] g = "torus" ->
           Concat(<<Chars("A "), Chars(size), Chars(" torus with a "), Chars(terms.radius1),
                    Chars(" and a "), Chars(terms.radius2), Chars(".")>>)
      [] g = "helix" ->
           Concat(<<Chars("A "), Chars(size), Chars(" helix with a "), Chars(terms.pitch),
                    Chars(", "), Chars(terms.height), Chars(", "), Chars(terms.radius),
                    Chars(", and "), Chars(terms.angle), Chars(".")>>)

\* create_quantitative_description (create_quantitative_description_box and
\* create_quantitative_description_cube in generate_box_and_cube_data.py)
QuantitativeDescription(g, kw, terms) ==
    CASE g = "plane" ->
           Concat(<<Chars("A plane with a "), Chars(terms.width), Chars(" of "),
                    Format2f(kw.width), Chars(" units and "), Chars(terms.height), Chars(" of "),
                    Format2f(kw.height), Chars(" units.")>>)
      [] g = "box" ->
           Concat(<<Chars("A box with a "), Chars(terms.length), Chars(" of "),
                    Format2f(kw.length), Chars(" units, a "), Chars(terms.width), Chars(" of "),
                    Format2f(kw.width), Chars(" units, and a "), Chars(terms.height),
                    Chars(" of "), Format2f(kw.height), Chars(" units.")>>)
      [] g = "cube" ->
           Concat(<<Chars("A cube with a "), Chars(terms.length), Chars(", "),
                    Chars(terms.width), Chars(", and "), Chars(terms.height), Chars(" of "),
                    Format2f(kw.length), Chars(" units.")>>)
      [] g = "cylinder" ->
           Concat(<<Chars("A cylinder with a "), Chars(terms.radius), Chars(" of "),
                    Format2f(Converted(terms.radius, kw.radius)), Chars(" units and "),
                    Chars(terms.height), Chars(" of "), Format2f(kw.height),
                    Chars(" units.")>>)
      [] g = "cone" ->
           Concat(<<Chars("A cone with a "), Chars(terms.radius1), Chars(" of "),
                    Format2f(Converted(terms.radius1, kw.radius1)), Chars(" units, a "),
                    Chars(terms.radius2), Chars(" of "),
                    Format2f(Converted(terms.radius2, kw.radius2)), Chars(" units, and a "),
                    Chars(terms.height), Chars(" of "), Format2f(kw.height),
                    Chars(" units.")>>)
      [] g = "sphere" ->
           Concat(<<Chars("A sphere with a "), Chars(terms.radius), Chars(" of "),
                    Format2f(Converted(terms.radius, kw.radius)), Chars(" units.")>>)
      [] g = "torus" ->
           Concat(<<Chars("A torus with a "), Chars(terms.radius1), Chars(" of "),
                    Format2f(kw.radius1), Chars(" units and a "), Chars(terms.radius2),
                    Chars(" of "), Format2f(kw.radius2), Chars(" units.")>>)
      [] g = "helix" ->
           Concat(<<Chars("A helix with a "), Chars(terms.pitch), Chars(" of "),
                    Format2f(kw.pitch), Chars(" units, a "), Chars(terms.height), Chars(" of "),
                    Format2f(kw.height), Chars(" units, a "), Chars(terms.radius), Chars(" of "),
                    Format2f(kw.radius), Chars(" units, and an "), Chars(terms.angle),
                    Chars(" of "), Format2f(kw.angle), Chars(" degrees.")>>)


\* One iteration's random outcomes: the shape (box_and_cube only has a
\* choice), the size, the parameters drawn for it, one term per list, and
\* whether random.random() < 0.5 failed (the quantitative description).
IterationChoices(script) ==
    UNION { UNION { {[shape |-> g, size |-> z, kw |-> kw, terms |-> t, quantitative |-> q] :
                        kw \in GeneratorKwargs(g, z), t \in TermChoices(g), q \in BOOLEAN} :
                    z \in Sizes } :
            g \in ScriptShapes(script) }

\* The iterations of the longer runs: size "small" and, of its draws, the
\* one that is least in every parameter; every shape, term and form.
LeastDraws(g, size) ==
    {kw \in GeneratorKwargs(g, size) :
        \A other \in GeneratorKwargs(g, size) : \A f \in DOMAIN kw : kw[f] <= other[f]}

RunChoices(script) ==
    UNION { {[shape |-> g, size |-> "small", kw |-> kw, terms |-> t, quantitative |-> q] :
                kw \in LeastDraws(g, "small"), t \in TermChoices(g), q \in BOOLEAN} :
            g \in ScriptShapes(script) }

\* The record of one iteration: dataset.append({"shape", "description",
\* "cad_parameters": cad_parameters.to_list()}).
GeneratedRecord(c) ==
    [shape |-> c.shape,
     description |-> IF c.quantitative
                     THEN QuantitativeDescription(c.shape, c.kw, c.terms)
                     ELSE QualitativeDescription(c.shape, c.size, c.terms),
     cad_parameters |-> GeneratorEntry(c.shape, c.kw).cad_parameters]

\* The runs: one script, --num-datapoints, and the outcomes of its
\* iterations.  Runs of one iteration take every outcome; longer runs take
\* RunChoices.  range() of a negative number is empty.
Runs ==
    UNION { {[script |-> s, num_datapoints |-> 1, tape |-> <<c>>] : c \in IterationChoices(s)}
            \cup UNION { {[script |-> s, num_datapoints |-> n, tape |-> t] :
                             t \in [1..n -> RunChoices(s)]} : n \in 0..MaxDatapoints }
            \cup {[script |-> s, num_datapoints |-> -1, tape |-> << >>]} :
            s \in Scripts }

\* parser.parse_args() and, in generate_box_and_cube_data.py only,
\* assert args.num_datapoints > 0.
ParseArguments ==
    /\ gpc = "start"
    /\ IF run.script = "box_and_cube" /\ ~(run.num_datapoints > 0)
       THEN gpc' = "aborted" /\ gexc' = "AssertionError"
       ELSE gpc' = "loop" /\ gexc' = gexc
    /\ UNCHANGED <<run, gdataset, gfile>>

\* One iteration of for _ in range(args.num_datapoints).
GenerateRecord ==
    /\ gpc = "loop"
    /\ Len(gdataset) < run.num_datapoints
    /\ gdataset' = Append(gdataset, GeneratedRecord(run.tape[Len(gdataset) + 1]))
    /\ UNCHANGED <<gpc, run, gfile, gexc>>

\* A mutation of WriteDataset: the file is written without waiting for the
\* loop to end.
WriteDatasetEarly ==
    /\ gpc = "loop"
    /\ gfile' = <<gdataset>>
    /\ gpc' = "done"
    /\ UNCHANGED <<run, gdataset, gexc>>

\* After the loop: with open(..., 'w') as f: json.dump(dataset, f, indent=4).
WriteDataset ==
    /\ gpc = "loop"
    /\ ~(Len(gdataset) < run.num_datapoints)
    /\ gfile' = <<gdataset>>
    /\ gpc' = "done"
    /\ UNCHANGED <<run, gdataset, gexc>>

InitGenerate ==
    /\ gpc = "start"
    /\ run \in Runs
    /\ gdataset = << >>
    /\ gfile = << >>
    /\ gexc = "none"
    /\ SchemaIdle
    /\ TextIdle
    /\ InferIdle
    /\ TrainIdle
    /\ PassIdle
    /\ PipeIdle

NextGenerate ==
    \/ ParseArguments /\ UNCHANGED <<schemaVars, textVars, inferVars, trainVars, passVars, pipeVars>>
    \/ GenerateRecord /\ UNCHANGED <<schemaVars, textVars, inferVars, trainVars, passVars, pipeVars>>
    \/ WriteDataset /\ UNCHANGED <<schemaVars, textVars, inferVars, trainVars, passVars, pipeVars>>

SpecGenerate == InitGenerate /\ [][NextGenerate]_vars


(***************************************************************************)
(* Claims about the dataset generators, checked under SpecGenerate.        *)
(***************************************************************************)
\* The position in to_list() of a Parameters field.
C15_Position(f) == 1 + (CHOOSE i \in 1..Len(Fields) : Fields[i] = f)

\* True when the text holds the characters w somewhere.
C15_Renders(text, w) == \E i \in 1..Len(text) : HasAt(text, i, w)

\* The radius fields the sphere, cylinder and cone generators draw.
C15_RadiusFields(c) == DOMAIN c.kw \cap {"radius", "radius1", "radius2"}

\* C15: in every record of the sphere, cylinder and cone generators that has
\* a quantitative description, a radius named by a "diameter" term is
\* rendered as "<term> of <twice the sampled radius, two decimals> units", a
\* radius named by a "radius" term as "<term> of <the sampled radius> units",
\* and cad_parameters holds the sampled radius itself in either case.
C15_DiameterRendered ==
    \A k \in 1..Len(gdataset) :
        LET c == run.tape[k] IN
        (c.shape \in {"sphere", "cylinder", "cone"} /\ c.quantitative) =>
            \A f \in C15_RadiusFields(c) :
                /\ C15_Renders(gdataset[k].description,
                       Chars(c.terms[f]) \o Chars(" of ")
                       \o Format2f(IF c.terms[f] \in {"diameter", "base diameter", "top diameter"}
                                   THEN 2 * c.kw[f] ELSE c.kw[f])
                       \o <<" ", "u", "n", "i", "t", "s">>)
                /\ gdataset[k].cad_parameters[C15_Position(f)] = c.kw[f]

\* A sphere record written with a quantitative description of its diameter.
C15_Witness ==
    /\ gfile # << >>
    /\ \E k \in 1..Len(gdataset) :
          /\ run.tape[k].shape = "sphere"
          /\ run.tape[k].quantitative
          /\ run.tape[k].terms.radius = "diameter"
          /\ run.tape[k].kw.radius = 100
          /\ C15_Renders(gfile[1][k].description, Chars("diameter") \o Chars(" of ") \o <<"2", "0", ".", "0", "0">>)


\* The fields of a record's draws that lie within the range of its size.
C16_WithinBucket(c, list, fields) ==
    \A f \in fields :
        /\ SizeToRange(c.size)[1] <= list[C15_Position(f)]
        /\ list[C15_Position(f)] <= SizeToRange(c.size)[2]

\* The parameters a generator draws relative to another parameter or from a
\* range of their own: the cone's top radius, the torus's minor radius and
\* the helix's angle.
C16_DependentFields(c) ==
    CASE c.shape = "cone"  -> {"radius2"}
      [] c.shape = "torus" -> {"radius2"}
      [] c.shape = "helix" -> {"angle"}
      [] OTHER -> {}

C16_Between(x, a, b) == (a <= x /\ x <= b) \/ (b <= x /\ x <= a)

\* C16 as stated: every sampled parameter stored in cad_parameters lies
\* within the range of the record's size bucket.
C16_AllWithinBucket ==
    \A k \in 1..Len(gdataset) :
        C16_WithinBucket(run.tape[k], gdataset[k].cad_parameters, DOMAIN run.tape[k].kw)

\* C16, amended: every sampled parameter stored in cad_parameters lies within
\* the range of the record's size bucket, except the cone's top radius, which
\* lies between 0.1 and the base radius, the torus's minor radius, which lies
\* between 1 and the major radius less 0.1, and the helix's angle, which lies
\* between 0 and 360.
C16_WithinBucketOrDependent ==
    \A k \in 1..Len(gdataset) :
        LET c == run.tape[k]
            list == gdataset[k].cad_parameters
        IN  /\ C16_WithinBucket(c, list, DOMAIN c.kw \ C16_DependentFields(c))
            /\ c.shape = "cone" =>
                 C16_Between(list[C15_Position("radius2")], 1, list[C15_Position("radius1")])
            /\ c.shape = "torus" =>
                 C16_Between(list[C15_Position("radius2")], 10, list[C15_Position("radius1")] - 1)
            /\ c.shape = "helix" =>
                 C16_Between(list[C15_Position("angle")], 0, 3600)

\* A large cone written with a top radius of 0.1, a large torus written with
\* a minor radius of 1, or a small helix written with an angle of 360.
C16_Witness ==
    /\ gfile # << >>
    /\ \E k \in 1..Len(gdataset) :
          LET c == run.tape[k] IN
          /\ ~C16_WithinBucket(c, gfile[1][k].cad_parameters, DOMAIN c.kw)
          /\ \/ c.shape = "cone" /\ c.size = "large" /\ c.kw.radius2 = 1
             \/ c.shape = "torus" /\ c.size = "large" /\ c.kw.radius2 = 10
             \/ c.shape = "helix" /\ c.size = "small" /\ c.kw.angle = 3600


\* C17: every record of the box-and-cube generator, box or cube, holds the
\* value of SupportedShapes.BOX (2) at cad_parameters[0], and its length,
\* width and height at cad_parameters[1..3] lie within the range of the
\* record's size bucket.
C17_BoxValueAndBucket ==
    run # << >> /\ run.script = "box_and_cube" =>
        \A k \in 1..Len(gdataset) :
            /\ gdataset[k].shape \in {"box", "cube"}
            /\ At(gdataset[k].cad_parameters, 0) = EnumValue(MemberAttr("BOX")[1])
            /\ At(gdataset[k].cad_parameters, 0) = 2
            /\ \A i \in 1..3 :
                  /\ SizeToRange(run.tape[k].size)[1] <= At(gdataset[k].cad_parameters, i)
                  /\ At(gdataset[k].cad_parameters, i) <= SizeToRange(run.tape[k].size)[2]

\* A file written with a box record and a cube record.
C17_Witness ==
    /\ gfile # << >>
    /\ run.script = "box_and_cube"
    /\ \E j, k \in 1..Len(gfile[1]) :
          /\ gfile[1][j].shape = "box"
          /\ gfile[1][k].shape = "cube"
          /\ At(gfile[1][k].cad_parameters, 0) = 2


\* A TrainingExample: a shape string, a description (its characters) and a
\* vector of nine numbers.
C18_TrainingExample(r) ==
    /\ DOMAIN r = {"shape", "description", "cad_parameters"}
    /\ r.shape \in Generators
    /\ Len(r.description) > 0
    /\ Len(r.cad_parameters) = 9
    /\ \A i \in 1..9 : r.cad_parameters[i] \in Int

\* The file of a run that asked for N > 0 records holds exactly N records,
\* all of them TrainingExamples, and they are the records the loop made.
C18_FileHoldsAllRecords ==
    (gfile # << >> /\ run.num_datapoints > 0) =>
        /\ Len(gfile[1]) = run.num_datapoints
        /\ gfile[1] = gdataset
        /\ \A k \in 1..Len(gfile[1]) : C18_TrainingExample(gfile[1][k])

\* A run that asked for N > 0 records and has ended has written the file.
C18_EndedRunWrote ==
    (gpc \in {"done", "aborted"} /\ run.num_datapoints > 0) => (gpc = "done" /\ gfile # << >>)

\* The file is written in one step, taken when the loop has made all N
\* records, and nothing is written or appended afterwards.
C18_WrittenOnceAfterLoop ==
    [][ (gfile' # gfile /\ run.num_datapoints > 0) =>
          /\ gfile = << >>
          /\ Len(gdataset) = run.num_datapoints
          /\ gfile' = <<gdataset>>
          /\ gdataset' = gdataset ]_vars

\* C18: every generator run with a requested count N > 0 writes one JSON
\* array, once and only after the loop has generated all N records; the
\* array holds exactly N records, each with a shape string, a description
\* string and a cad_parameters vector of 9 elements.
C18_OneArrayOfNRecords ==
    /\ [](run.num_datapoints > 0 => (C18_FileHoldsAllRecords /\ C18_EndedRunWrote))
    /\ C18_WrittenOnceAfterLoop

\* A run of MaxDatapoints records that has written its file.
C18_Witness ==
    /\ gpc = "done"
    /\ run.num_datapoints = MaxDatapoints
    /\ Len(gfile[1]) = MaxDatapoints


\* The number a quantitative description shows for field f of the draws c.
C19_Shown(c, f) ==
    IF c.shape \in {"sphere", "cylinder", "cone"}
       /\ c.terms[f] \in {"diameter", "base diameter", "top diameter"}
    THEN 2 * c.kw[f] ELSE c.kw[f]

\* The qualitative form: the text names the size bucket of the record and
\* every term chosen for it, and holds no digit.
C19_Qualitative(c, text) ==
    /\ C15_Renders(text, Chars(c.size))
    /\ \A f \in DOMAIN c.terms : C15_Renders(text, Chars(c.terms[f]))
    /\ \A i \in 1..Len(text) : ~IsDigit(text[i])

\* The quantitative form: the text holds every drawn value with two
\* decimals, between a space and a space, and names no size bucket.
C19_Quantitative(c, text) ==
    /\ \A f \in DOMAIN c.kw :
          C15_Renders(text, <<" ">> \o NatChars(C19_Shown(c, f) \div 10)
                            \o <<".", DigitChars[(C19_Shown(c, f) % 10) + 1], "0", " ">>)
    /\ \A z \in Sizes : ~C15_Renders(text, Chars(z))

\* C19: every generated description has exactly one of two forms: the
\* qualitative form, which names the record's size bucket and its terms and
\* holds no numeric literal, or the quantitative form, which holds the
\* numeric values with two decimals and does not name a size bucket.
C19_ExactlyOneForm ==
    \A k \in 1..Len(gdataset) :
        LET c == run.tape[k]
            text == gdataset[k].description
        IN  /\ C19_Qualitative(c, text) # C19_Quantitative(c, text)
            /\ C19_Quantitative(c, text) = c.quantitative

\* A cylinder file written with a description of each form.
C19_Witness ==
    /\ gfile # << >>
    /\ run.script = "cylinder"
    /\ \E j, k \in 1..Len(gfile[1]) :
          /\ C19_Qualitative(run.tape[j], gfile[1][j].description)
          /\ C19_Quantitative(run.tape[k], gfile[1][k].description)


(***************************************************************************)
(* Claims about the saved artifacts, checked under SpecTrain.              *)
(***************************************************************************)
\* C20: when a training run has completed, the input_dim of the config file
\* equals the size of the vocabulary of the vectorizer file and the input
\* width of the model file, and the output_dim of the config file is 9, the
\* length of Parameters.to_list().
C20_ArtifactsAgree ==
    tpc = "done" =>
        /\ files.vectorizer # << >> /\ files.model # << >> /\ files.config # << >>
        /\ files.config[1].input_dim = Cardinality(files.vectorizer[1].vocabulary)
        /\ files.config[1].input_dim = files.model[1].input_dim
        /\ files.config[1].output_dim = 9
        /\ files.config[1].output_dim = Len(ToList(NewParameters("SPHERE", NoKwargs)))
        /\ files.config[1].output_dim = files.model[1].output_dim

\* A completed retraining run over MaxEntries entries that loaded the model
\* file of an earlier run.
C20_Witness ==
    /\ tpc = "done"
    /\ files.config[1].input_dim > 0
    /\ args.retrain
    /\ loaded.model # << >>
    /\ Len(dataset) = MaxEntries


(***************************************************************************)
(* Claims about generate_freecad_file and the decode, checked under        *)
(* SpecInfer.                                                              *)
(***************************************************************************)
\* generate_freecad_file has returned: its result is bound.
C21_Returned == result # << >>

\* generate_freecad_file was left by an exception raised in the loop over
\* the objects.
C21_LeftInLoop == ipc = "aborted" /\ doc # << >> /\ result = << >>

\* C21: the document generate_freecad_file opens is closed exactly when
\* saveAs succeeded: after a return that follows a successful save the
\* document is closed, after a return that follows a failed save it is open,
\* and after an exit by an exception raised while shapes are added it is
\* open and not saved.
C21_ClosedIffSaved ==
    /\ C21_Returned =>
          /\ doc[1].save \in {"saved", "failed"}
          /\ (~doc[1].open) <=> (doc[1].save = "saved")
    /\ C21_LeftInLoop => (doc[1].open /\ doc[1].save = "none")
    /\ doc # << >> => ((~doc[1].open) => doc[1].save = "saved")

\* A call has returned after a successful save, with the document closed.
C21_Witness ==
    /\ C21_Returned
    /\ doc[1].save = "saved"
    /\ ~doc[1].open

\* A call has returned after a failed save.
C21_FailedSaveReturned == C21_Returned /\ doc[1].save = "failed" /\ doc[1].open

\* A call was left by an exception of the loop with the document open.
C21_LeftInLoopOpen == C21_LeftInLoop /\ doc[1].open /\ Len(doc[1].features) > 0


\* C22: for every object generate_freecad_file has dispatched, capitalising
\* str() of the object's kind names a shape class, so that
\* instantiate_from_string finds a class for every member of SupportedShapes
\* and no call ends with the KeyError of the lookup.
C22_DispatchTotal ==
    /\ \A k \in 1..obj_count : Capitalize(StrOfMember(objects[k].name)) \in ShapeClasses
    /\ iexc # "KeyError"


(***************************************************************************)
(* Claims about the training driver and the training functions, checked    *)
(* under SpecTrain.                                                        *)
(***************************************************************************)
\* C23: when every entry of the loaded dataset carries a shape string that a
\* generator writes, the conversion loop of the training driver converts
\* every entry and the run does not end in the loop.
C23_GeneratedDatasetConverts ==
    (/\ tpc \notin {"idle", "load", "convert"}
     /\ dataset # << >>
     /\ \A k \in 1..Len(dataset) : dataset[k].shape \in Generators)
    => /\ Len(processed_dataset) = Len(dataset)
       /\ \A k \in 1..Len(dataset) : ConvertOne(dataset[k]).exc = "none"


\* The values of the members of SupportedShapes.
C24_EnumValues == {1, 2, 3, 4, 5, 7, 10, 12}

\* C24: when the first element of the shape prediction vector is not one of
\* the values 1, 2, 3, 4, 5, 7, 10, 12, from_model_output_to_object raises
\* ValueError and no Object3D is built: the value is not moved to a supported
\* kind, and the run ends there without a document.
C24_UnsupportedValueRaises ==
    (/\ shape_prediction_params # << >>
     /\ ipc # "decode"
     /\ shape_prediction_params[1][1] \notin C24_EnumValues)
    => /\ ipc = "aborted"
       /\ iexc = "ValueError"
       /\ objects = << >>
       /\ doc = << >>

\* The prediction [6, ...], between the values of SPHERE and TORUS, has
\* ended the run with ValueError.
C24_Witness ==
    /\ shape_prediction_params # << >>
    /\ shape_prediction_params[1][1] = 6
    /\ ipc = "aborted"
    /\ iexc = "ValueError"
    /\ objects = << >>


(***************************************************************************)
(* One call of train or evaluate (common.py): the loop over the batches    *)
(* and the average returned.                                               *)
(***************************************************************************)
\* X[start_idx:end_idx] of a tensor of n rows: the indices of the rows of
\* the slice, which Python cuts at n.
SliceIndices(n, start_idx, end_idx) ==
    LET lo == IF start_idx < n THEN start_idx ELSE n
        hi == IF end_idx < n THEN end_idx ELSE n
    IN  [k \in 1..(hi - lo) |-> lo + k - 1]

\* The calls: the function, len(X), batch_size, and loss.item() of each
\* batch the loop may process.
Passes ==
    UNION { {[fn |-> f, n |-> n, batch_size |-> b, losses |-> l] :
                f \in {"train", "evaluate"}, b \in 1..MaxBatchSize, l \in [1..n -> {0, 1}]} :
            n \in 0..MaxSamples }

\* One iteration of for i in range(num_batches); train also steps the
\* optimizer.
ProcessBatch ==
    /\ ppc = "loop"
    /\ Len(batches) < NumBatches(pass.n, pass.batch_size)
    /\ LET i == Len(batches)
           start_idx == i * pass.batch_size
           end_idx == start_idx + pass.batch_size
       IN  /\ batches' = Append(batches, SliceIndices(pass.n, start_idx, end_idx))
           /\ epoch_loss' = epoch_loss + pass.losses[i + 1]
    /\ optimizer_steps' = IF pass.fn = "train" THEN optimizer_steps + 1 ELSE optimizer_steps
    /\ UNCHANGED <<ppc, pass, avg_loss, pexc>>

\* return epoch_loss / num_batches: the quotient as a fraction, or
\* ZeroDivisionError.
ReturnAverage ==
    /\ ppc = "loop"
    /\ ~(Len(batches) < NumBatches(pass.n, pass.batch_size))
    /\ IF AverageLoss(pass.n, pass.batch_size).exc # "none"
       THEN /\ pexc' = AverageLoss(pass.n, pass.batch_size).exc
            /\ ppc' = "aborted"
            /\ avg_loss' = avg_loss
       ELSE /\ avg_loss' = <<[sum |-> epoch_loss,
                              count |-> AverageLoss(pass.n, pass.batch_size).value[1]]>>
            /\ ppc' = "returned"
            /\ pexc' = pexc
    /\ UNCHANGED <<pass, batches, optimizer_steps, epoch_loss>>

InitPass ==
    /\ ppc = "loop"
    /\ pass \in Passes
    /\ batches = << >>
    /\ optimizer_steps = 0
    /\ epoch_loss = 0
    /\ avg_loss = << >>
    /\ pexc = "none"
    /\ SchemaIdle
    /\ TextIdle
    /\ InferIdle
    /\ TrainIdle
    /\ GenIdle
    /\ PipeIdle

NextPass ==
    \/ ProcessBatch /\ UNCHANGED <<schemaVars, textVars, inferVars, trainVars, genVars, pipeVars>>
    \/ ReturnAverage /\ UNCHANGED <<schemaVars, textVars, inferVars, trainVars, genVars, pipeVars>>

SpecPass == InitPass /\ [][NextPass]_vars


(***************************************************************************)
(* Claims about train and evaluate, checked under SpecPass.                *)
(***************************************************************************)
\* The samples of a batch.
C25_Samples(batch) == {batch[k] : k \in 1..Len(batch)}

\* C25: a pass of train or evaluate over n samples with batch size b
\* processes exactly floor(n / b) batches, in increasing order; batch i
\* (from 0) covers the contiguous indices i*b .. (i+1)*b - 1, so every batch
\* has exactly b samples and no sample is in two batches; the trailing
\* n mod b samples are in no batch.
C25_TruncatedBatches ==
    ppc # "idle" =>
        LET n == pass.n
            b == pass.batch_size
            q == n \div b
        IN  /\ Len(batches) <= q
            /\ ppc \in {"returned", "aborted"} => Len(batches) = q
            /\ \A i \in 1..Len(batches) :
                  /\ Len(batches[i]) = b
                  /\ \A k \in 1..Len(batches[i]) : batches[i][k] = (i - 1) * b + (k - 1)
            /\ \A i, j \in 1..Len(batches) :
                  i # j => C25_Samples(batches[i]) \cap C25_Samples(batches[j]) = {}
            /\ \A i \in 1..Len(batches) :
                  C25_Samples(batches[i]) \cap ((n - (n % b))..(n - 1)) = {}
            /\ pass.fn = "train" => optimizer_steps = Len(batches)
            /\ pass.fn = "evaluate" => optimizer_steps = 0

\* train has returned from 5 samples in batches of 2: two batches, the
\* second of the samples 2 and 3, and sample 4 in none.
C25_Witness ==
    /\ ppc = "returned"
    /\ pass.fn = "train"
    /\ pass.n = 5
    /\ pass.batch_size = 2
    /\ batches = << <<0, 1>>, <<2, 3>> >>


\* C26: for every non-empty sample set and every positive batch size, a call
\* of train or evaluate that has ended has returned the sum of the batch
\* losses divided by the number of batches, which is positive.
C26_AverageDefined ==
    (ppc \in {"returned", "aborted"} /\ pass.n > 0 /\ pass.batch_size > 0)
    => /\ ppc = "returned"
       /\ pexc = "none"
       /\ avg_loss # << >>
       /\ avg_loss[1].count > 0
       /\ avg_loss[1].sum = epoch_loss


(***************************************************************************)
(* Claims about the use of the parameter schema, checked under SpecSchema. *)
(***************************************************************************)
\* The fields from_list_to_parameter reads for a shape string: those of the
\* branch whose condition names the kind (BOX for the string "box").
C27_ReadFields(g) ==
    LET i == CHOOSE i \in 1..Len(Branches) :
                 \E k \in 1..Len(Branches[i].names) :
                     Branches[i].names[k] = GeneratorShapeName(g)
    IN  Branches[i].fields

\* The shape class of a kind: Box for box and cube.
C27_ClassOf(g) == IF g \in {"box", "cube"} THEN "Box" ELSE Capitalize(g)

\* C27: for every kind that has a generator, the fields the generator
\* passes to Parameters are the fields from_list_to_parameter reads for the
\* kind, and these are the fields the kind's from_parameters passes to the
\* constructor of the CAD primitive.
C27_SchemaConsistent ==
    (call.op = "generate" /\ entry # << >>) =>
        /\ DOMAIN call.kw = C27_ReadFields(call.shape)
        /\ C27_ReadFields(call.shape) = ClassFields(C27_ClassOf(call.shape))


(***************************************************************************)
(* The two drivers in one directory: train_model.py with its default file  *)
(* arguments, then run_text_to_cad.py.                                     *)
(***************************************************************************)
\* The defaults of --model-file, --vectorizer-file and --config-file.
DefaultPath(driver) ==
    IF driver = "train_model"
    THEN [model |-> "model.pth", vectorizer |-> "vectorizer.pkl", config |-> "config.yaml"]
    ELSE [model |-> "model.pth", vectorizer |-> "vectorizer.pkl", config |-> "config_file.yaml"]

\* The files of the directory after the training run, which wrote to its
\* default paths.
Directory ==
    {DefaultPath("train_model")[k] : k \in {j \in ArtifactKinds : files[j] # << >>}}

\* The file arguments of the inference run: no path flag, or --config-file
\* with the path the training run wrote.
InferenceArgs ==
    {DefaultPath("run_text_to_cad"),
     [DefaultPath("run_text_to_cad") EXCEPT !.config = DefaultPath("train_model").config]}

\* The raw outputs of the model in these runs: those with zero parameters.
PipelineOutputs == {r \in RawOutputs : \A k \in 2..Len(r) : r[k] = 0}

\* run_text_to_cad.py is started in the directory of the completed training
\* run: the files it will look for are those of its arguments.
RunInference ==
    /\ tpc = "done"
    /\ ipc = "idle"
    /\ \E a \in InferenceArgs :
          /\ infer_args' = <<a>>
          /\ artifacts' = <<{k \in ArtifactKinds : a[k] \in Directory}>>
          /\ raw_output' \in IF \A k \in ArtifactKinds : a[k] \in Directory
                            THEN PipelineOutputs ELSE {<< >>}
    /\ ipc' = "start"
    /\ output_file' = <<"output.fcstd">>
    /\ UNCHANGED <<loaded_artifacts, shape_prediction_params, objects, doc, obj_count, iexc, result>>

InitPipeline == InitTrain

\* The steps of the training run, the start of the inference run, and the
\* steps of the inference run up to the loop over the decoded object, where
\* a run of the driver ends.
NextPipeline ==
    \/ NextTrain
    \/ RunInference /\ UNCHANGED <<schemaVars, textVars, trainVars, genVars, passVars>>
    \/ CheckArtifacts /\ UNCHANGED <<schemaVars, textVars, trainVars, genVars, passVars, pipeVars>>
    \/ LoadArtifacts /\ UNCHANGED <<schemaVars, textVars, trainVars, genVars, passVars, pipeVars>>
    \/ Predict /\ UNCHANGED <<schemaVars, textVars, trainVars, genVars, passVars, pipeVars>>
    \/ Decode /\ UNCHANGED <<schemaVars, textVars, trainVars, genVars, passVars, pipeVars>>
    \/ NewDocument /\ UNCHANGED <<schemaVars, textVars, trainVars, genVars, passVars, pipeVars>>
    \/ AddObject /\ UNCHANGED <<schemaVars, textVars, trainVars, genVars, passVars, pipeVars>>

SpecPipeline == InitPipeline /\ [][NextPipeline]_vars

(***************************************************************************)
(* Claims about the two drivers together, checked under SpecPipeline.      *)
(***************************************************************************)
\* C28: when run_text_to_cad.py is run without path flags in the directory
\* of a completed training run that had no path flags, the model, vectorizer
\* and config files it looks for are files the training run wrote, and none
\* of its existence assertions fails.
C28_DefaultPathsAgree ==
    (infer_args # << >> /\ infer_args[1] = DefaultPath("run_text_to_cad")) =>
        /\ \A k \in ArtifactKinds : infer_args[1][k] \in Directory
        /\ artifacts = <<ArtifactKinds>>
        /\ ~(ipc = "aborted" /\ iexc = "AssertionError")


(***************************************************************************)
(* A further claim about the box-and-cube generator, checked under         *)
(* SpecGenerate.                                                           *)
(***************************************************************************)
\* The draws of a box cover every combination of three draws from the
\* range of the size: no parameter restricts another.
C29_BoxDrawsIndependent ==
    \A z \in Sizes :
        GeneratorKwargs("box", z) =
            {[length |-> l, width |-> w, height |-> h] :
                l \in RangeDraw(z), w \in RangeDraw(z), h \in RangeDraw(z)}

\* C29: every cube record of the box-and-cube generator stores the one
\* sampled side as its length, its width and its height; a box record stores
\* its three draws, each in its own place, and the three are drawn
\* independently of each other.
C29_CubeSidesEqual ==
    /\ C29_BoxDrawsIndependent
    /\ \A k \in 1..Len(gdataset) :
          LET c == run.tape[k]
              list == gdataset[k].cad_parameters
          IN  /\ gdataset[k].shape = "cube" =>
                    /\ At(list, 1) = At(list, 2) /\ At(list, 2) = At(list, 3)
                    /\ At(list, 1) = c.kw.length
                    /\ SizeToRange(c.size)[1] <= At(list, 1)
                    /\ At(list, 1) <= SizeToRange(c.size)[2]
              /\ gdataset[k].shape = "box" =>
                    /\ At(list, 1) = c.kw.length
                    /\ At(list, 2) = c.kw.width
                    /\ At(list, 3) = c.kw.height

\* A written cube record of the small size whose length, width and height
\* are all the sampled side, 10.0.
C29_Witness ==
    /\ gfile # << >>
    /\ run.script = "box_and_cube"
    /\ \E k \in 1..Len(gfile[1]) :
          /\ gfile[1][k].shape = "cube"
          /\ run.tape[k].kw.length = 100
          /\ At(gfile[1][k].cad_parameters, 1) = 100
          /\ At(gfile[1][k].cad_parameters, 2) = 100
          /\ At(gfile[1][k].cad_parameters, 3) = 100

\* A written box record whose length, width and height all differ.
C29_BoxOfThreeDraws ==
    /\ gfile # << >>
    /\ \E k \in 1..Len(gfile[1]) :
          /\ gfile[1][k].shape = "box"
          /\ At(gfile[1][k].cad_parameters, 1) = 110
          /\ At(gfile[1][k].cad_parameters, 2) = 500
          /\ At(gfile[1][k].cad_parameters, 3) # 110
          /\ At(gfile[1][k].cad_parameters, 3) # 500
=============================================================================
